---- MODULE Spec2Model ----
(***************************************************************************)
(* DisplayPort AUX channel helpers (drivers/gpu/drm/drm_dp_helper.c).      *)
(*                                                                         *)
(* The module models one AUX channel (struct drm_dp_aux) shared by         *)
(* several caller threads.  Native DPCD callers run drm_dp_dpcd_read /     *)
(* drm_dp_dpcd_write, which go through drm_dp_dpcd_access; one I2C caller  *)
(* runs an I2C-over-AUX exchange bracketed by lock_bus / unlock_bus.       *)
(* The raw transfer function aux->transfer is the environment: each call   *)
(* is in progress for one state and then returns an outcome chosen from    *)
(* TransferOutcomes.                                                       *)
(***************************************************************************)
EXTENDS Integers, Sequences, FiniteSets, TLC

(***************************************************************************)
(* Bounds of the model.                                                    *)
(***************************************************************************)
\* Caller threads issuing native DPCD reads and writes.
NumThreads == 2
\* Largest length of the i2c_msg of an I2C-over-AUX exchange.
MaxI2cLen == 1
\* Largest size a caller passes to drm_dp_dpcd_read / drm_dp_dpcd_write.
MaxSize == 2
\* Most messages of one I2C exchange followed on its own.
MaxI2cMsgs == 2
\* Most I2C-level DEFER replies counted on one channel.
MaxDefers == 14
\* The highest value of a counter of the channel at which a further I2C
\* exchange is followed.
MaxCarried == 0
\* Largest value of a counter of the channel at which a native access is
\* followed in the specifications of the I2C-over-AUX engine.
MaxCounted == 2
\* Most vblank waits counted after drm_dp_stop_crc cleared the start bit.
MaxWaits == 2
\* Most calls of drm_dp_aux_get_crc and of drm_crtc_add_crc_entry counted
\* after one vblank wait.
MaxPolls == 3

(***************************************************************************)
(* Program constants.                                                      *)
(***************************************************************************)
\* errno values (linux/errno.h), used negated as return values.
EIO == 5
EBUSY == 16
EINVAL == 22
EAGAIN == 11
EPROTO == 71
ETIMEDOUT == 110
EREMOTEIO == 121

\* Request codes and reply codes of struct drm_dp_aux_msg.
DP_AUX_NATIVE_WRITE == 8
DP_AUX_NATIVE_READ == 9
DP_AUX_NATIVE_REPLY_ACK == 0
DP_AUX_NATIVE_REPLY_NACK == 1
DP_AUX_NATIVE_REPLY_DEFER == 2
DP_AUX_NATIVE_REPLY_MASK == 3

DP_AUX_I2C_WRITE == 0
DP_AUX_I2C_READ == 1
DP_AUX_I2C_WRITE_STATUS_UPDATE == 2
DP_AUX_I2C_MOT == 4
DP_AUX_I2C_REPLY_ACK == 0
DP_AUX_I2C_REPLY_NACK == 4
DP_AUX_I2C_REPLY_DEFER == 8
DP_AUX_I2C_REPLY_MASK == 12
DP_AUX_MAX_PAYLOAD_BYTES == 16

\* The start bit of the sink's DP_TEST_SINK register (drm_dp_helper.h).
DP_TEST_SINK_START == 1

\* Timing constants of the I2C-over-AUX retry budget (lines 184, 625-666).
AUX_RETRY_INTERVAL == 500
AUX_PRECHARGE_LEN == 10
AUX_SYNC_LEN == 20
AUX_STOP_LEN == 4
AUX_CMD_LEN == 4
AUX_ADDRESS_LEN == 20
AUX_REPLY_PAD_LEN == 4
AUX_LENGTH_LEN == 8
I2C_START_LEN == 1
I2C_STOP_LEN == 1
I2C_ADDR_LEN == 9
I2C_DATA_LEN == 9

\* Module parameter dp_aux_i2c_speed_khz at its default (line 704).
dp_aux_i2c_speed_khz == 10

\* Least number of retries of an I2C-over-AUX message (line 728), and the most
\* extra retries I2C DEFER replies can add (line 808).
I2C_MIN_RETRIES == 7
I2C_MAX_DEFER_EXTRA == 7

\* DPCD register offsets.
DP_DPCD_REV == 0
DP_LANE0_1_STATUS == 514

\* Number of attempts of the loop in drm_dp_dpcd_access.
MaxNativeRetry == 32

(***************************************************************************)
(* State.                                                                  *)
(***************************************************************************)
VARIABLES
  hw_mutex,   \* aux->hw_mutex: 0 when free, else the thread holding it
  is_remote,  \* aux->is_remote
  pc,         \* per thread: where the thread stands in the code
  call,       \* per thread: the exported function running and its arguments
  phase,      \* per thread: which access of drm_dp_dpcd_read is running
  msg,        \* per thread: struct drm_dp_aux_msg msg of drm_dp_dpcd_access
  retry,      \* per thread: loop counter of drm_dp_dpcd_access
  ret,        \* per thread: local ret of drm_dp_dpcd_access
  err,        \* per thread: local err of drm_dp_dpcd_access
  obs,        \* per thread: observer of the running access (history only)
  issued,     \* per thread: observer, accesses completed by the running call
  i2c,        \* the I2C caller thread: locals of drm_dp_i2c_xfer,
              \*   drm_dp_i2c_drain_msg and drm_dp_i2c_do_msg
  lastRet,    \* observer: the exported call that returned last, kept until
              \*   the channel lock is next taken
  i2c_nack_count,   \* aux->i2c_nack_count
  i2c_defer_count,  \* aux->i2c_defer_count
  crc,        \* frame CRC capture: aux->crc_work, aux->crtc, aux->crc_count,
              \* the sink's test registers, the caller of start/stop
  ddc,        \* aux->ddc and the device node of the channel
  calc        \* a call of one of the decoding helpers: arguments and result

vars == <<hw_mutex, is_remote, pc, call, phase, msg, retry, ret, err,
          obs, issued, i2c, lastRet, i2c_nack_count, i2c_defer_count,
          crc, ddc, calc>>

\* The two counters of the channel, written by drm_dp_i2c_do_msg only.
counters == <<i2c_nack_count, i2c_defer_count>>

\* What the transaction engine (drm_dp_dpcd_access, drm_dp_i2c_xfer) leaves
\* alone.
rest == <<crc, ddc, calc>>

Threads == 1..NumThreads
\* The thread running I2C-over-AUX exchanges, as a holder of hw_mutex.
I2cThread == NumThreads + 1

Sizes == 1..MaxSize
Offsets == {DP_LANE0_1_STATUS}

\* No call is running; 0 also stands for an argument of drm_dp_dpcd_read that
\* the code has not read yet.
NoCall == [fn |-> "none", offset |-> 0, size |-> 0]
NoMsg == [address |-> 0, request |-> 0, size |-> 0]
NoOut == [kind |-> "none", ret |-> 0]
\* The observer of one access of drm_dp_dpcd_access:
\*   acc      the parameters the access was entered with
\*   calls    raw transfer calls made so far
\*   acq      mutex_lock calls made so far
\*   first    outcome of the first raw transfer
\*   lastErr  error of the latest failed attempt
\*   nackRun  n if the attempts so far were n NACKs (then at most one full
\*            ACK), -1 otherwise
\*   sameMsg  every raw transfer was handed the parameters of the access
\*   acked    a full ACK was received
NoObs == [acc |-> NoMsg, calls |-> 0, acq |-> 0, first |-> NoOut,
          lastErr |-> 0, nackRun |-> 0, sameMsg |-> TRUE, acked |-> FALSE]

\* What lastRet keeps of the observer of an access: the first outcome, the
\* latest error, and whether all attempts were used without a full ACK.
Summary(o) ==
  [first |-> o.first, lastErr |-> o.lastErr,
   exhausted |-> o.calls >= MaxNativeRetry /\ ~o.acked]
NoSummary == Summary(NoObs)

\* The observer of the exported call that returned last: its arguments and
\* result, the accesses it made and the observer of the last of them.
NoRet == [fn |-> "none", thread |-> 0, offset |-> 0, size |-> 0,
          remote |-> FALSE, result |-> 0, got |-> 0, issued |-> <<>>,
          access |-> NoSummary]

(***************************************************************************)
(* The raw transfer collaborator, aux->transfer.                           *)
(***************************************************************************)
\* Errors the transfer function itself may report.
TransportErrors == {-EBUSY, -ETIMEDOUT, -EINVAL}

\* Native reply codes the sink may put in msg.reply.
NativeReplies ==
  {DP_AUX_NATIVE_REPLY_ACK, DP_AUX_NATIVE_REPLY_NACK, DP_AUX_NATIVE_REPLY_DEFER}

\* What one call of aux->transfer(aux, &msg) may produce: a negative error
\* (msg.reply is then not looked at), or a byte count of at most msg.size
\* together with the reply byte it stored in msg.reply.
TransferOutcomes(m) ==
  [ret : TransportErrors, reply : {DP_AUX_NATIVE_REPLY_ACK}]
    \cup [ret : 0..m.size, reply : NativeReplies]

\* Results of the MST (remote) DPCD collaborator for a request of n bytes.
MstResults(n) == {n, -EIO, -ETIMEDOUT}

(***************************************************************************)
(* Bit operations on small naturals.                                       *)
(***************************************************************************)
RECURSIVE BitAnd(_, _)
BitAnd(a, b) ==
  IF a = 0 \/ b = 0 THEN 0
  ELSE (IF a % 2 = 1 /\ b % 2 = 1 THEN 1 ELSE 0) + 2 * BitAnd(a \div 2, b \div 2)

(***************************************************************************)
(* Variants of the pieces below that differ from the code in one point     *)
(* each. The properties at the end of the module tell each variant from    *)
(* the piece it stands beside.                                             *)
(***************************************************************************)
\* A mutex_lock that does not wait for the holder.
MutexNeverWaits(m) == TRUE
\* A loop body that gives the lock up before usleep_range.
LockDroppedToSleep(m, t) == IF m = t THEN 0 ELSE m
\* A loop that runs while retry <= 32.
LoopContinuesOneMore(n) == n <= 32
\* A give-up path that returns the error of the latest attempt.
GiveUpWithLatest(e, r) == r
\* A mutex_unlock that leaves the lock with its holder.
StillLocked(m, t) == m
\* A loop body without the goto that ends the loop on success.
AttemptNeverEnds(r, reply, size) == FALSE
\* A loop that waits before the next attempt unless the transfer function
\* itself reported an error.
SleepUnlessTransportError(r) == r # 0 /\ r \notin TransportErrors
\* A throwaway read whose result is not looked at.
ThrowawayIgnored(r) == TRUE
\* A drm_dp_dpcd_read that makes its throwaway read on every channel.
\* An I2C DEFER that does not extend the loop of drm_dp_i2c_do_msg.
DeferNotExtended(defer_i2c) == defer_i2c

\* An I2C DEFER that extends the loop of drm_dp_i2c_do_msg without a cap.
DeferAlwaysExtends(defer_i2c) == defer_i2c + 1

\* A drain that recommends the size it began with whatever the replies.
DrainKeepsSize(d, v, size) == d

\* A drain that hands on whatever drm_dp_i2c_do_msg returned.
DrainPassesZero(v) == v

\* A closing packet that keeps the request of the last message as it is.
CloseKeepsRequest(request) == request

\* An exchange that reports the error of its closing packet.
CloseResultKept(e, v) == IF v < 0 THEN v ELSE e

\* A counter that no reply moves.
CountNothing(n, r, reply) == n

\* A work item that goes on whatever crtc->crc.opened is.
AlwaysContinues(opened) == TRUE

\* A flush_work that returns at once.
FlushNeverWaits(pending, work) == TRUE

\* drm_dp_aux_register that leaves the device node after i2c_add_adapter
\* failed.
DevnodeKept(devnode, r) == devnode

ThrowawayAlways(remote) == TRUE

(***************************************************************************)
(* drm_dp_dpcd_access: pieces of the retry loop.                           *)
(***************************************************************************)
\* Lines 240-249: the value of ret after one transfer returned r with reply
\* byte reply, for a request of size bytes.
NativeResult(r, reply, size) ==
  IF r >= 0
  THEN IF BitAnd(reply, DP_AUX_NATIVE_REPLY_MASK) = DP_AUX_NATIVE_REPLY_ACK
       THEN IF r = size THEN r ELSE -EPROTO
       ELSE -EIO
  ELSE r

\* Lines 240-244: the attempt ends the loop (goto unlock).
AttemptSucceeded(r, reply, size) ==
  /\ r >= 0
  /\ BitAnd(reply, DP_AUX_NATIVE_REPLY_MASK) = DP_AUX_NATIVE_REPLY_ACK
  /\ r = size

\* Lines 256-257: err keeps the error of the first failed attempt.
FirstError(e, r) == IF e = 0 THEN r ELSE e

\* Line 262: the value returned when the attempts are used up.
GiveUpResult(e, r) == e

\* Line 234: whether the next attempt is preceded by usleep_range.
NeedsSleep(r) == r # 0 /\ r # -ETIMEDOUT

\* usleep_range(min, max): the times in microseconds the caller may sleep.
usleep_range(min, max) == min..max

\* Lines 235-236: the wait before an attempt.
RetryWait == usleep_range(AUX_RETRY_INTERVAL, AUX_RETRY_INTERVAL + 100)

\* Line 233: the loop condition.
LoopContinues(n) == n < MaxNativeRetry

\* Lines 233-237: where the thread stands after mutex_lock or a failed attempt.
NextAttemptPc(n, r) ==
  IF LoopContinues(n)
  THEN IF NeedsSleep(r) THEN "sleep" ELSE "xfer"
  ELSE "unlock"

\* mutex_lock(&aux->hw_mutex) (lines 225, 955) returns only when no thread
\* holds the lock.
MutexIsFree(m) == m = 0

\* Lines 233-258: the loop body calls no mutex operation, so the lock is as
\* it was when the thread goes to usleep_range.
LockWhileSleeping(m, t) == m

\* Lines 219-223: the message built from the parameters of the access.
AccessMsg(request, offset, size) ==
  [address |-> offset, request |-> request, size |-> size]

\* The message handed to aux->transfer in attempt n (line 239).
SentMsg(m, n) == m

\* A requested read that goes to aux->transfer without mutex_lock.
EnterAccessUnlocked(t) ==
  /\ msg' = [msg EXCEPT ![t] = NoMsg]
  /\ retry' = [retry EXCEPT ![t] = 0]
  /\ ret' = [ret EXCEPT ![t] = 0]
  /\ err' = [err EXCEPT ![t] = 0]
  /\ pc' = [pc EXCEPT ![t] = "xfer"]
  /\ obs' = [obs EXCEPT ![t] = NoObs]

\* Line 310: after its throwaway read drm_dp_dpcd_read enters
\* drm_dp_dpcd_access again and stands at mutex_lock (line 225); the message
\* is built once the lock is granted.
EnterAccess(t) ==
  /\ msg' = [msg EXCEPT ![t] = NoMsg]
  /\ retry' = [retry EXCEPT ![t] = 0]
  /\ ret' = [ret EXCEPT ![t] = 0]
  /\ err' = [err EXCEPT ![t] = 0]
  /\ pc' = [pc EXCEPT ![t] = "lock"]
  /\ obs' = [obs EXCEPT ![t] = NoObs]

\* Lines 212-239: a thread enters drm_dp_dpcd_access while the lock is free,
\* mutex_lock returns at once and the thread goes on to the first pass of the
\* loop.  (While the lock is held the entering thread waits in mutex_lock
\* without having changed anything another thread can see: the call is
\* taken when the lock is granted.)
EnterAccessLocked(t, request, offset, size) ==
  /\ MutexIsFree(hw_mutex)
  /\ hw_mutex' = t
  /\ msg' = [msg EXCEPT ![t] = AccessMsg(request, offset, size)]
  /\ retry' = [retry EXCEPT ![t] = 0]
  /\ ret' = [ret EXCEPT ![t] = 0]
  /\ err' = [err EXCEPT ![t] = 0]
  /\ pc' = [pc EXCEPT ![t] = NextAttemptPc(0, 0)]
  /\ obs' = [obs EXCEPT ![t] =
               [NoObs EXCEPT !.acc = [address |-> offset, request |-> request,
                                      size |-> size],
                             !.acq = 1]]
  /\ lastRet' = NoRet

\* The exported function returns result, after its last callee
\* (drm_dp_dpcd_access or the MST collaborator) returned got: the thread is
\* idle again.
ReturnToCaller(t, result, remote, done, got) ==
  /\ lastRet' = [fn |-> call[t].fn, thread |-> t, offset |-> call[t].offset,
                 size |-> call[t].size, remote |-> remote, result |-> result,
                 got |-> got, issued |-> done, access |-> Summary(obs[t])]
  /\ pc' = [pc EXCEPT ![t] = "idle"]
  /\ call' = [call EXCEPT ![t] = NoCall]
  /\ phase' = [phase EXCEPT ![t] = "none"]
  /\ msg' = [msg EXCEPT ![t] = NoMsg]
  /\ retry' = [retry EXCEPT ![t] = 0]
  /\ ret' = [ret EXCEPT ![t] = 0]
  /\ err' = [err EXCEPT ![t] = 0]
  /\ obs' = [obs EXCEPT ![t] = NoObs]
  /\ issued' = [issued EXCEPT ![t] = <<>>]

(***************************************************************************)
(* drm_dp_dpcd_read / drm_dp_dpcd_write: pieces.                           *)
(***************************************************************************)
\* Line 300: drm_dp_dpcd_read starts with the throwaway read.
ThrowawayWanted(remote) == ~remote

\* Lines 301-302: the throwaway access.
ThrowawayAcc ==
  [request |-> DP_AUX_NATIVE_READ, offset |-> DP_DPCD_REV, size |-> 1]

\* Line 303: the throwaway read lets the requested read go ahead.
ThrowawayOk(r) == r = 1

\* Lines 308, 313-315 and 339, 344-345: what the exported function returns
\* when the MST collaborator returned r.
DelegatedResult(r) == r

\* Lines 310 and 341: the request code of the requested access.
RequestOf(fn) ==
  IF fn = "read" THEN DP_AUX_NATIVE_READ ELSE DP_AUX_NATIVE_WRITE

(***************************************************************************)
(* Actions of a native caller thread.                                      *)
(***************************************************************************)
\* drm_dp_dpcd_read(aux, offset, buffer, size) is called (lines 283-311).
\* The throwaway access uses neither offset nor size: when it is made, the
\* two arguments are drawn where the code first reads them (line 310), and
\* until then the call record holds 0 for both.
DpcdRead(t) ==
  /\ UNCHANGED <<counters, rest>>
  /\ pc[t] = "idle"
  /\ IF ThrowawayWanted(is_remote)
     THEN /\ call' = [call EXCEPT ![t] =
                        [fn |-> "read", offset |-> 0, size |-> 0]]
          /\ phase' = [phase EXCEPT ![t] = "throwaway"]
          /\ EnterAccessLocked(t, ThrowawayAcc.request, ThrowawayAcc.offset,
                               ThrowawayAcc.size)
     ELSE \E offset \in Offsets, size \in Sizes :
            /\ call' = [call EXCEPT ![t] =
                          [fn |-> "read", offset |-> offset, size |-> size]]
            /\ phase' = [phase EXCEPT ![t] = "real"]
            /\ IF is_remote
               THEN /\ pc' = [pc EXCEPT ![t] = "mst"]
                    /\ UNCHANGED <<hw_mutex, msg, retry, ret, err, obs,
                                   lastRet>>
               ELSE EnterAccessLocked(t, DP_AUX_NATIVE_READ, offset, size)
  /\ UNCHANGED <<is_remote, issued, i2c>>

\* drm_dp_dpcd_write(aux, offset, buffer, size) is called (lines 333-342).
DpcdWrite(t) ==
  /\ UNCHANGED <<counters, rest>>
  /\ pc[t] = "idle"
  /\ \E offset \in Offsets, size \in Sizes :
       /\ call' = [call EXCEPT ![t] =
                     [fn |-> "write", offset |-> offset, size |-> size]]
       /\ phase' = [phase EXCEPT ![t] = "real"]
       /\ IF is_remote
          THEN /\ pc' = [pc EXCEPT ![t] = "mst"]
               /\ UNCHANGED <<hw_mutex, msg, retry, ret, err, obs, lastRet>>
          ELSE EnterAccessLocked(t, DP_AUX_NATIVE_WRITE, offset, size)
  /\ UNCHANGED <<is_remote, issued, i2c>>

\* drm_dp_mst_dpcd_read / drm_dp_mst_dpcd_write return (lines 308, 339) and
\* the exported function returns their result (lines 313-315, 344-345).
MstReturn(t) ==
  /\ UNCHANGED <<counters, rest>>
  /\ pc[t] = "mst"
  /\ \E r \in MstResults(call[t].size) :
       ReturnToCaller(t, DelegatedResult(r), TRUE, issued[t], r)
  /\ UNCHANGED <<hw_mutex, is_remote, i2c>>

\* mutex_lock(&aux->hw_mutex) returns (line 225) for a thread that entered
\* the requested access of drm_dp_dpcd_read after its throwaway read; the
\* thread goes on to the first pass of the loop (lines 233-239).
MutexLock(t) ==
  /\ UNCHANGED <<counters, rest>>
  /\ pc[t] = "lock"
  /\ \E offset \in Offsets, size \in Sizes :
       /\ call' = [call EXCEPT ![t] = [@ EXCEPT !.offset = offset,
                                                !.size = size]]
       /\ EnterAccessLocked(t, RequestOf(call[t].fn), offset, size)
  /\ UNCHANGED <<is_remote, phase, issued, i2c>>

\* usleep_range(AUX_RETRY_INTERVAL, AUX_RETRY_INTERVAL + 100) returns
\* (lines 234-237) and the thread calls aux->transfer.
Sleep(t) ==
  /\ UNCHANGED <<counters, rest>>
  /\ pc[t] = "sleep"
  /\ RetryWait # {}
  /\ pc' = [pc EXCEPT ![t] = "xfer"]
  /\ UNCHANGED <<hw_mutex, is_remote, call, phase, msg, retry, ret, err,
                 obs, issued, i2c, lastRet>>

\* The observer's reading of an outcome, independent of the code's decoding.
OutKind(out, size) ==
  IF out.ret < 0 THEN "error"
  ELSE IF out.reply % 4 = DP_AUX_NATIVE_REPLY_NACK THEN "nack"
  ELSE IF out.reply % 4 = DP_AUX_NATIVE_REPLY_DEFER THEN "defer"
  ELSE IF out.reply % 4 # DP_AUX_NATIVE_REPLY_ACK THEN "invalid"
  ELSE IF out.ret = size THEN "ack"
  ELSE "short"

\* The observer after a raw transfer that was handed sent returned out.
Observe(o, sent, out) ==
  LET k == OutKind(out, o.acc.size)
  IN  [o EXCEPT
         !.calls = @ + 1,
         !.first = IF @.kind # "none" THEN @
                   ELSE [kind |-> k, ret |-> IF k = "error" THEN out.ret ELSE 0],
         !.lastErr = IF k = "ack" THEN @
                     ELSE IF k = "error" THEN out.ret
                     ELSE IF k = "short" THEN -EPROTO
                     ELSE -EIO,
         !.nackRun = IF @ < 0 THEN @
                     ELSE IF k = "nack" THEN @ + 1
                     ELSE IF k = "ack" THEN @
                     ELSE -1,
         !.sameMsg = @ /\ sent = o.acc,
         !.acked = @ \/ k = "ack"]

\* aux->transfer(aux, &msg) returns (line 239) and the rest of the loop body
\* runs (lines 240-257), up to the next usleep_range, the next transfer call or
\* the unlock label (lines 233-237, 260-264).
Transfer(t) ==
  /\ UNCHANGED <<counters, rest>>
  /\ pc[t] = "xfer"
  /\ \E out \in TransferOutcomes(SentMsg(msg[t], retry[t])) :
       LET sent == SentMsg(msg[t], retry[t])
           r == NativeResult(out.ret, out.reply, sent.size)
           e1 == FirstError(err[t], r)
           n1 == retry[t] + 1
       IN  /\ msg' = [msg EXCEPT ![t] = sent]
           /\ IF AttemptSucceeded(out.ret, out.reply, sent.size)
              THEN /\ ret' = [ret EXCEPT ![t] = r]
                   /\ pc' = [pc EXCEPT ![t] = "unlock"]
                   /\ UNCHANGED <<retry, err>>
              ELSE /\ err' = [err EXCEPT ![t] = e1]
                   /\ retry' = [retry EXCEPT ![t] = n1]
                   /\ pc' = [pc EXCEPT ![t] = NextAttemptPc(n1, r)]
                   /\ ret' = [ret EXCEPT ![t] =
                                IF LoopContinues(n1) THEN r
                                ELSE GiveUpResult(e1, r)]
           /\ hw_mutex' = IF pc'[t] = "sleep"
                          THEN LockWhileSleeping(hw_mutex, t)
                          ELSE hw_mutex
           /\ obs' = [obs EXCEPT ![t] = Observe(@, sent, out)]
  /\ UNCHANGED <<is_remote, call, phase, issued, i2c, lastRet>>

\* The lock after mutex_unlock(&aux->hw_mutex) by thread t (line 265).
Unlocked(m, t) == IF m = t THEN 0 ELSE m

\* The unlock label: mutex_unlock and return ret (lines 264-266), then the
\* caller's next lines: drm_dp_dpcd_read either returns (lines 303-304,
\* 313-315) or enters the requested access (line 310); drm_dp_dpcd_write
\* returns (lines 344-345).
MutexUnlock(t) ==
  /\ UNCHANGED <<counters, rest>>
  /\ pc[t] = "unlock"
  /\ hw_mutex' = Unlocked(hw_mutex, t)
  /\ LET done == Append(issued[t], [msg |-> obs[t].acc, ret |-> ret[t],
                                           acq |-> obs[t].acq])
     IN  IF phase[t] = "throwaway" /\ ThrowawayOk(ret[t])
         THEN /\ phase' = [phase EXCEPT ![t] = "real"]
              /\ EnterAccess(t)
              /\ issued' = [issued EXCEPT ![t] = done]
              /\ UNCHANGED <<call, lastRet>>
         ELSE ReturnToCaller(t, ret[t], FALSE, done, ret[t])
  /\ UNCHANGED <<is_remote, i2c>>

NativeStep(t) ==
  \/ DpcdRead(t)
  \/ DpcdWrite(t)
  \/ MstReturn(t)
  \/ MutexLock(t)
  \/ Sleep(t)
  \/ Transfer(t)
  \/ MutexUnlock(t)

(***************************************************************************)
(* I2C-over-AUX: pure pieces.                                              *)
(***************************************************************************)
BitOr(a, b) == a + b - BitAnd(a, b)
BitClear(a, b) == a - BitAnd(a, b)
DIV_ROUND_UP(n, d) == (n + d - 1) \div d
Max(a, b) == IF a >= b THEN a ELSE b
Min(a, b) == IF a <= b THEN a ELSE b
Clamp(v, lo, hi) == Min(Max(v, lo), hi)

\* A switch to the status update that leaves every request as it is.
RequestKept(request) == request

\* A switch to write-status-update that does not look at the command.
SwitchAlways(request) ==
  BitOr(BitAnd(request, DP_AUX_I2C_MOT), DP_AUX_I2C_WRITE_STATUS_UPDATE)

\* drm_dp_i2c_msg_write_status_update (lines 612-623), on msg->request.
drm_dp_i2c_msg_write_status_update(request) ==
  IF BitClear(request, DP_AUX_I2C_MOT) = DP_AUX_I2C_WRITE
  THEN BitOr(BitAnd(request, DP_AUX_I2C_MOT), DP_AUX_I2C_WRITE_STATUS_UPDATE)
  ELSE request

\* drm_dp_aux_req_duration (lines 637-646).
drm_dp_aux_req_duration(m) ==
  LET len == AUX_PRECHARGE_LEN + AUX_SYNC_LEN + AUX_STOP_LEN + AUX_CMD_LEN
             + AUX_ADDRESS_LEN + AUX_LENGTH_LEN
  IN  IF BitAnd(m.request, DP_AUX_I2C_READ) = 0 THEN len + m.size * 8 ELSE len

\* drm_dp_aux_reply_duration (lines 648-661).
drm_dp_aux_reply_duration(m) ==
  LET len == AUX_PRECHARGE_LEN + AUX_SYNC_LEN + AUX_STOP_LEN + AUX_CMD_LEN
             + AUX_REPLY_PAD_LEN
  IN  IF BitAnd(m.request, DP_AUX_I2C_READ) # 0 THEN len + m.size * 8 ELSE len

\* drm_dp_i2c_msg_duration (lines 676-683).
drm_dp_i2c_msg_duration(m, i2c_speed_khz) ==
  DIV_ROUND_UP((I2C_START_LEN + I2C_ADDR_LEN + m.size * I2C_DATA_LEN
                + I2C_STOP_LEN) * 1000, i2c_speed_khz)

\* drm_dp_i2c_retry_count (lines 690-698).
drm_dp_i2c_retry_count(m, i2c_speed_khz) ==
  LET aux_time_us == drm_dp_aux_req_duration(m) + drm_dp_aux_reply_duration(m)
      i2c_time_us == drm_dp_i2c_msg_duration(m, i2c_speed_khz)
  IN  DIV_ROUND_UP(i2c_time_us, aux_time_us + AUX_RETRY_INTERVAL)

\* drm_dp_i2c_msg_set_request (lines 826-833), for an i2c_msg with flags
\* I2C_M_RD (rd) and I2C_M_STOP (stop).
drm_dp_i2c_msg_set_request(m) ==
  LET request == IF m.rd THEN DP_AUX_I2C_READ ELSE DP_AUX_I2C_WRITE
  IN  IF ~m.stop THEN BitOr(request, DP_AUX_I2C_MOT) ELSE request

\* The observer of one call of drm_dp_i2c_do_msg:
\*   sent    the message the call was entered with
\*   calls   raw transfer calls made so far
\*   defers  I2C-level DEFER replies received so far
\*   last    outcome of the latest raw transfer, forgotten when the thread
\*           leaves its usleep_range
NoIo == [sent |-> NoMsg, calls |-> 0, defers |-> 0, last |-> NoOut]

\* The observer of one call of drm_dp_i2c_xfer:
\*   bare     calls of drm_dp_i2c_do_msg entered with a zero-length message
\*   fail     the first negative value a step handed to drm_dp_i2c_xfer, and
\*   failAt   the index of the message it belongs to (0: no step has failed)
\*   chunks   chunks of the current message handed to drm_dp_i2c_drain_msg
\*   prev     size of the chunk before the current one (0: there is none)
\*   full     every raw transfer for a chunk of the current message came back
\*            as an ACK covering all it was asked for
\*   short    the smallest short ACK count of the current chunk (0: none)
\*   tries    calls of drm_dp_i2c_do_msg made for the current chunk
\*   sum      bytes the calls of drm_dp_i2c_do_msg for the current chunk
\*            have reported
NoXo == [bare |-> 0, fail |-> 0, failAt |-> 0, chunks |-> 0, prev |-> 0,
         full |-> TRUE, short |-> 0, tries |-> 0, sum |-> 0]

\* The I2C caller thread before and after an exchange.  buffer is msg.buffer
\* of drm_dp_i2c_drain_msg, as an offset into the buf of the i2c_msg.
I2cIdle ==
  [pc |-> "idle", msgs |-> <<>>, dp_aux_i2c_transfer_size |-> 0,
   speed_khz |-> 0,
   i |-> 0, j |-> 0, transfer_size |-> 0, err |-> 0, msg |-> NoMsg,
   step |-> "none", cur |-> NoMsg, dret |-> 0, buffer |-> 0,
   retry |-> 0, defer_i2c |-> 0, max_retries |-> 0, v |-> 0,
   io |-> NoIo, xo |-> NoXo]

\* The i2c_msg arrays handed to drm_dp_i2c_xfer.
I2cMsgs ==
  [rd : BOOLEAN, stop : BOOLEAN, len : 0..MaxI2cLen, addr : {80}]

\* Values of the module parameter dp_aux_i2c_transfer_size when an exchange
\* starts.
I2cTransferSizes == {DP_AUX_MAX_PAYLOAD_BYTES}

\* Reply bytes an I2C-over-AUX transfer may leave in msg.reply: a native
\* reply code, and under a native ACK an I2C reply code.  The last two are
\* the codes the protocol does not define.
I2cReplies ==
  {DP_AUX_NATIVE_REPLY_ACK + DP_AUX_I2C_REPLY_ACK,
   DP_AUX_NATIVE_REPLY_ACK + DP_AUX_I2C_REPLY_NACK,
   DP_AUX_NATIVE_REPLY_ACK + DP_AUX_I2C_REPLY_DEFER,
   DP_AUX_NATIVE_REPLY_NACK, DP_AUX_NATIVE_REPLY_DEFER,
   DP_AUX_NATIVE_REPLY_MASK,
   DP_AUX_NATIVE_REPLY_ACK + DP_AUX_I2C_REPLY_MASK}

\* The replies without an I2C-level NACK or DEFER: the ones that leave the
\* counters of the channel alone.
I2cUncountedReplies ==
  {DP_AUX_NATIVE_REPLY_ACK + DP_AUX_I2C_REPLY_ACK,
   DP_AUX_NATIVE_REPLY_NACK, DP_AUX_NATIVE_REPLY_DEFER}

\* What one call of aux->transfer may produce for an I2C-over-AUX message
\* while native accesses run beside the exchange.
I2cTransferOutcomes(m) ==
  [ret : TransportErrors, reply : {DP_AUX_NATIVE_REPLY_ACK}]
    \cup [ret : 0..m.size, reply : I2cUncountedReplies]

\* The observer's reading of an outcome, independent of the code's decoding.
I2cOutKind(out) ==
  IF out.ret = -EBUSY THEN "busy"
  ELSE IF out.ret < 0 THEN "error"
  ELSE IF out.reply % 4 = DP_AUX_NATIVE_REPLY_NACK THEN "native nack"
  ELSE IF out.reply % 4 = DP_AUX_NATIVE_REPLY_DEFER THEN "native defer"
  ELSE IF out.reply % 4 # DP_AUX_NATIVE_REPLY_ACK THEN "native invalid"
  ELSE IF out.reply = DP_AUX_I2C_REPLY_ACK THEN "ack"
  ELSE IF out.reply = DP_AUX_I2C_REPLY_NACK THEN "i2c nack"
  ELSE IF out.reply = DP_AUX_I2C_REPLY_DEFER THEN "i2c defer"
  ELSE "i2c invalid"

\* The observers after a raw transfer of drm_dp_i2c_do_msg returned out.
I2cObserve(s, out) ==
  LET k == I2cOutKind(out)
      fullAck == k = "ack" /\ out.ret = s.cur.size
      shortAck == k = "ack" /\ 0 < out.ret /\ out.ret < s.cur.size
  IN  [s EXCEPT
         !.io.calls = @ + 1,
         !.io.defers = IF k = "i2c defer" THEN @ + 1 ELSE @,
         !.io.last = [kind |-> k, ret |-> out.ret],
         !.xo.full = IF s.step = "data" THEN @ /\ fullAck ELSE @,
         !.xo.short = IF s.step = "data" /\ shortAck /\ (@ = 0 \/ out.ret < @)
                      THEN out.ret ELSE @]

(***************************************************************************)
(* drm_dp_i2c_xfer, drm_dp_i2c_drain_msg and drm_dp_i2c_do_msg as state     *)
(* transformers on the record of the I2C thread.  Each runs the code up to *)
(* the next point where the thread stands: a raw transfer call             *)
(* (pc "xfer"), a usleep_range (pc "sleep"), the return of                 *)
(* drm_dp_i2c_do_msg (pc "ret") or the return of drm_dp_i2c_xfer           *)
(* (pc "unlock").                                                          *)
(***************************************************************************)
\* A retry budget without the minimum of 7.
BudgetWithoutFloor(m, speed_khz) == drm_dp_i2c_retry_count(m, speed_khz)

\* Line 728: the retry budget of a message.
MaxRetries(m, speed_khz) ==
  Max(I2C_MIN_RETRIES, drm_dp_i2c_retry_count(m, speed_khz))

\* drm_dp_i2c_do_msg is entered for message m (lines 717-731): the budget is
\* computed and the first pass of the loop calls aux->transfer.
DoMsgEnter(s, m, step) ==
  [s EXCEPT !.cur = m, !.step = step, !.retry = 0, !.defer_i2c = 0,
            !.max_retries = MaxRetries(m, s.speed_khz),
            !.pc = "xfer",
            !.io = [NoIo EXCEPT !.sent = m],
            !.xo.bare = IF m.size = 0 THEN @ + 1 ELSE @]

\* Line 935: the request of the closing packet.
CloseRequest(request) == BitClear(request, DP_AUX_I2C_MOT)

\* Lines 929-938: the bare address packet closing the exchange.
XferClose(s) ==
  LET m == [s.msg EXCEPT !.request = CloseRequest(@), !.size = 0]
  IN  DoMsgEnter([s EXCEPT !.msg = m,
                           !.err = IF @ >= 0 THEN Len(s.msgs) ELSE @],
                 m, "close")

\* Lines 886-895: the outer loop of drm_dp_i2c_xfer at message i (from 1):
\* the bare address packet opening message i, or the close after the last.
XferMessage(s) ==
  IF s.i <= Len(s.msgs)
  THEN LET m == [address |-> s.msgs[s.i].addr,
                 request |-> drm_dp_i2c_msg_set_request(s.msgs[s.i]),
                 size |-> 0]
       IN  DoMsgEnter([s EXCEPT !.msg = m,
                                !.xo = [NoXo EXCEPT !.bare = s.xo.bare]],
                      m, "open")
  ELSE XferClose(s)

\* Line 912: the size of the next chunk.
ChunkSize(transfer_size, left) == Min(transfer_size, left)

\* Lines 910-914 and 840-846: the inner loop of drm_dp_i2c_xfer at offset j:
\* the next chunk enters drm_dp_i2c_drain_msg and its first
\* drm_dp_i2c_do_msg, or the loop is over and the next message follows.
XferChunk(s) ==
  IF s.j < s.msgs[s.i].len
  THEN LET m == [s.msg EXCEPT
                   !.size = ChunkSize(s.transfer_size, s.msgs[s.i].len - s.j)]
       IN  IF m.size > 0
           THEN DoMsgEnter([s EXCEPT !.msg = m, !.dret = m.size,
                                     !.buffer = s.j,
                                     !.xo.chunks = @ + 1,
                                     !.xo.prev = s.msg.size,
                                     !.xo.short = 0,
                                     !.xo.tries = 1,
                                     !.xo.sum = 0],
                           m, "data")
           ELSE [s EXCEPT !.pc = "stuck"]
  ELSE XferMessage([s EXCEPT !.i = @ + 1])

\* An exchange that leaves msg.request as drm_dp_i2c_do_msg left it.
RequestLeft(request, m) == request

\* Lines 901 and 920: msg.request, which held request, is set again from the
\* i2c_msg m.
RebuildRequest(request, m) == drm_dp_i2c_msg_set_request(m)

\* Lines 921-925: the value drm_dp_i2c_xfer keeps of a step that returned v.
StepError(v) == v

\* Lines 914-927: drm_dp_i2c_drain_msg, which worked on its own copy of msg,
\* returned v to drm_dp_i2c_xfer.
DrainReturn(s, v) ==
  LET s1 == [s EXCEPT !.err = StepError(v),
                      !.msg.request = RebuildRequest(@, s.msgs[s.i]),
                      !.xo.fail = IF v < 0 THEN v ELSE @,
                      !.xo.failAt = IF v < 0 THEN s.i ELSE @]
  IN  IF v < 0 THEN XferClose(s1)
      ELSE XferChunk([s1 EXCEPT !.transfer_size = v, !.j = @ + s1.msg.size])

\* Lines 847-848: what drm_dp_i2c_drain_msg returns when drm_dp_i2c_do_msg
\* returned v <= 0.
DrainError(v) == IF v = 0 THEN -EPROTO ELSE v

\* Lines 850-854: the transfer size drm_dp_i2c_drain_msg recommends after
\* drm_dp_i2c_do_msg returned v > 0 for a message of size bytes.
DrainSize(d, v, size) == IF v < size /\ v < d THEN v ELSE d

\* A drain that hands every call the start of the chunk.
BufferKept(buffer, v) == buffer

\* Line 857: msg.buffer after drm_dp_i2c_do_msg returned v > 0.
DrainBuffer(buffer, v) == buffer + v

\* Lines 938-940: what drm_dp_i2c_xfer returns when it holds e and the
\* closing drm_dp_i2c_do_msg returned v: `(void)drm_dp_i2c_do_msg(aux, &msg)`.
CloseResult(e, v) == e

\* The value drm_dp_i2c_do_msg returned is handled by its caller, up to the
\* next point where the thread stands: lines 895-909 after the open, lines
\* 847-860 inside drm_dp_i2c_drain_msg, lines 938-940 after the close.  The
\* open worked on msg itself, so that msg.request is what it left in cur.
DoMsgReturn(s, v) ==
  CASE s.step = "open" ->
         LET s1 == [s EXCEPT !.err = StepError(v),
                      !.msg.request = RebuildRequest(s.cur.request,
                                                     s.msgs[s.i]),
                      !.xo.fail = IF v < 0 THEN v ELSE @,
                      !.xo.failAt = IF v < 0 THEN s.i ELSE @]
         IN  IF v < 0 THEN XferClose(s1)
             ELSE XferChunk([s1 EXCEPT
                               !.transfer_size = s.dp_aux_i2c_transfer_size,
                               !.j = 0])
    [] s.step = "data" ->
         IF v <= 0 THEN DrainReturn(s, DrainError(v))
         ELSE LET d == DrainSize(s.dret, v, s.cur.size)
                  m == [s.cur EXCEPT !.size = @ - v]
                  s1 == [s EXCEPT !.dret = d,
                                  !.buffer = DrainBuffer(@, v),
                                  !.xo.sum = @ + v]
              IN  IF m.size > 0
                  THEN DoMsgEnter([s1 EXCEPT !.xo.tries = @ + 1], m, "data")
                  ELSE DrainReturn([s1 EXCEPT !.cur = m], d)
    [] OTHER -> [s EXCEPT !.pc = "unlock", !.err = CloseResult(@, v)]

\* drm_dp_i2c_do_msg returns v (lines 748, 763, 782, 793, 799, 818, 823).
DoMsgReturns(s, v) == [s EXCEPT !.pc = "ret", !.v = v]

\* Line 730: the loop condition of drm_dp_i2c_do_msg.
DoMsgLoopContinues(n, max_retries, defer_i2c) ==
  n < max_retries + defer_i2c

\* `continue` in the loop of drm_dp_i2c_do_msg (line 730): retry++ and the
\* loop condition; when it fails the message gives up (lines 822-823).
DoMsgContinue(s) ==
  LET s1 == [s EXCEPT !.retry = @ + 1]
  IN  IF DoMsgLoopContinues(s1.retry, s1.max_retries, s1.defer_i2c)
      THEN [s1 EXCEPT !.pc = "xfer"]
      ELSE DoMsgReturns(s1, -EREMOTEIO)

\* Lines 808-809: defer_i2c after an I2C DEFER reply.
DeferExtra(defer_i2c) ==
  IF defer_i2c < I2C_MAX_DEFER_EXTRA THEN defer_i2c + 1 ELSE defer_i2c

\* An -EBUSY of aux->transfer handed to the caller like the other errors.
BusyReturned(s, r) == DoMsgReturns(s, r)

\* Every negative result of aux->transfer retried like -EBUSY.
ErrorRetried(s, r) == DoMsgContinue(s)

\* Lines 732-749: what drm_dp_i2c_do_msg does with a negative result r of
\* aux->transfer.
DoMsgError(s, r) ==
  IF r = -EBUSY THEN DoMsgContinue(s) ELSE DoMsgReturns(s, r)

\* A NACK or an undefined reply code retried like a DEFER.
NackRetried(s) == DoMsgContinue(s)

\* Lines 760-763, 779-782, 795-799 and 815-818: what drm_dp_i2c_do_msg
\* returns on a NACK or an undefined reply code.
DoMsgNack(s) == DoMsgReturns(s, -EREMOTEIO)

\* Lines 731-819: aux->transfer returned r with reply byte reply.
DoMsgReply(s, r, reply) ==
  LET native == BitAnd(reply, DP_AUX_NATIVE_REPLY_MASK)
      i2cr == BitAnd(reply, DP_AUX_I2C_REPLY_MASK)
  IN  IF r < 0 THEN DoMsgError(s, r)
      ELSE IF native = DP_AUX_NATIVE_REPLY_NACK THEN DoMsgNack(s)
      ELSE IF native = DP_AUX_NATIVE_REPLY_DEFER THEN [s EXCEPT !.pc = "sleep"]
      ELSE IF native # DP_AUX_NATIVE_REPLY_ACK THEN DoMsgNack(s)
      ELSE IF i2cr = DP_AUX_I2C_REPLY_ACK
      THEN DoMsgReturns(
             IF r # s.cur.size
             THEN [s EXCEPT !.cur.request =
                              drm_dp_i2c_msg_write_status_update(@)]
             ELSE s, r)
      ELSE IF i2cr = DP_AUX_I2C_REPLY_NACK THEN DoMsgNack(s)
      ELSE IF i2cr = DP_AUX_I2C_REPLY_DEFER
      THEN [s EXCEPT !.defer_i2c = DeferExtra(@),
                     !.cur.request = drm_dp_i2c_msg_write_status_update(@),
                     !.pc = "sleep"]
      ELSE DoMsgNack(s)

\* Line 798: aux->i2c_nack_count after a raw transfer returned r with reply
\* byte reply.
NackCount(n, r, reply) ==
  IF /\ r >= 0
     /\ BitAnd(reply, DP_AUX_NATIVE_REPLY_MASK) = DP_AUX_NATIVE_REPLY_ACK
     /\ BitAnd(reply, DP_AUX_I2C_REPLY_MASK) = DP_AUX_I2C_REPLY_NACK
  THEN n + 1 ELSE n

\* Line 807: aux->i2c_defer_count after a raw transfer returned r with reply
\* byte reply.
DeferCount(n, r, reply) ==
  IF /\ r >= 0
     /\ BitAnd(reply, DP_AUX_NATIVE_REPLY_MASK) = DP_AUX_NATIVE_REPLY_ACK
     /\ BitAnd(reply, DP_AUX_I2C_REPLY_MASK) = DP_AUX_I2C_REPLY_DEFER
  THEN n + 1 ELSE n

(***************************************************************************)
(* Actions of the I2C caller thread.                                       *)
(***************************************************************************)
\* lock_bus (lines 953-956) returns to the I2C core, which then calls
\* drm_dp_i2c_xfer (lines 873-895) on the array msgs, with the module
\* parameters dp_aux_i2c_transfer_size = size and dp_aux_i2c_speed_khz =
\* speed_khz.  Only a direct channel has a raw transfer function and carries
\* I2C-over-AUX exchanges.
I2cXferEnter(msgs, size, speed_khz) ==
  /\ i2c.pc = "idle"
  /\ ~is_remote
  /\ MutexIsFree(hw_mutex)
  /\ hw_mutex' = I2cThread
  /\ i2c' = XferMessage(
              [I2cIdle EXCEPT
                 !.msgs = msgs, !.i = 1, !.speed_khz = speed_khz,
                 !.dp_aux_i2c_transfer_size =
                    Clamp(size, 1, DP_AUX_MAX_PAYLOAD_BYTES)])
  /\ lastRet' = NoRet
  /\ UNCHANGED <<is_remote, pc, call, phase, msg, retry, ret, err, obs, issued>>
  /\ UNCHANGED <<counters, rest>>

\* An exchange of one i2c_msg beside the native accesses.
I2cLockBus ==
  /\ i2c.pc = "idle"
  /\ \E m \in I2cMsgs, size \in I2cTransferSizes :
       I2cXferEnter(<<m>>, size, dp_aux_i2c_speed_khz)

\* aux->transfer returns out inside drm_dp_i2c_do_msg (line 731) and the loop
\* body runs (lines 732-819).
I2cTransferReturns(out) ==
  /\ i2c.pc = "xfer"
  /\ i2c' = DoMsgReply(I2cObserve(i2c, out), out.ret, out.reply)
  /\ i2c_nack_count' = NackCount(i2c_nack_count, out.ret, out.reply)
  /\ i2c_defer_count' = DeferCount(i2c_defer_count, out.ret, out.reply)
  /\ UNCHANGED <<hw_mutex, is_remote, pc, call, phase, msg, retry, ret, err,
                 obs, issued, lastRet>>
  /\ UNCHANGED rest

I2cTransfer ==
  \E out \in I2cTransferOutcomes(i2c.cur) : I2cTransferReturns(out)

\* usleep_range returns inside drm_dp_i2c_do_msg (lines 776-777, 810-813).
I2cSleep ==
  /\ i2c.pc = "sleep"
  /\ i2c' = DoMsgContinue([i2c EXCEPT !.io.last = NoOut])
  /\ UNCHANGED <<hw_mutex, is_remote, pc, call, phase, msg, retry, ret, err,
                 obs, issued, lastRet>>
  /\ UNCHANGED <<counters, rest>>

\* drm_dp_i2c_do_msg has returned i2c.v and its caller goes on.
I2cDoMsgReturn ==
  /\ i2c.pc = "ret"
  /\ i2c' = DoMsgReturn(i2c, i2c.v)
  /\ UNCHANGED <<hw_mutex, is_remote, pc, call, phase, msg, retry, ret, err,
                 obs, issued, lastRet>>
  /\ UNCHANGED <<counters, rest>>

\* drm_dp_i2c_xfer has returned (line 940) and the I2C core calls unlock_bus
\* (lines 963-966).
I2cUnlockBus ==
  /\ i2c.pc = "unlock"
  /\ hw_mutex' = Unlocked(hw_mutex, I2cThread)
  /\ i2c' = I2cIdle
  /\ UNCHANGED <<is_remote, pc, call, phase, msg, retry, ret, err, obs, issued,
                 lastRet>>
  /\ UNCHANGED <<counters, rest>>

I2cStep ==
  \/ I2cLockBus
  \/ I2cTransfer
  \/ I2cSleep
  \/ I2cDoMsgReturn
  \/ I2cUnlockBus

(***************************************************************************)
(* Frame CRC capture: drm_dp_start_crc, drm_dp_stop_crc and the work item  *)
(* drm_dp_aux_crc_work.  One caller starts and stops the capture; the work *)
(* item runs on a kernel worker; crtc->crc.opened belongs to the CRC       *)
(* debugfs code, which sets and clears it on its own.  A drm_dp_dpcd_readb *)
(* or drm_dp_dpcd_writeb is one step (drm_dp_dpcd_access serialises the    *)
(* accesses under hw_mutex) that ends in an error or in 1.                 *)
(***************************************************************************)
\* Values of TEST_CRC_COUNT the sink may show in DP_TEST_SINK_MISC.
CrcCounts == {0, 1}

\* Errors drm_dp_dpcd_readb and drm_dp_dpcd_writeb may return.
DpcdErrors == {-ETIMEDOUT, -EIO}

\* What drm_dp_dpcd_readb and drm_dp_dpcd_writeb may return.
DpcdResults == DpcdErrors \cup {1}

\* The capture of a channel:
\*   opened     crtc->crc.opened
\*   start      DP_TEST_SINK_START in the sink's DP_TEST_SINK
\*   crtc       aux->crtc is not NULL
\*   crc_count  aux->crc_count
\*   pending    aux->crc_work is queued and has not begun
\*   work       where drm_dp_aux_crc_work stands: "none" (not running),
\*              "head" (line 1019), "vblank" (line 1020), "get" (line 1024),
\*              "usleep" (line 1026), "retry" (line 1027)
\*   ctl        where the caller of start/stop stands: "idle", "start"
\*              (line 1167), "stop" (line 1193), "flush" (line 1197)
\* and the observers
\*   stopped    what drm_dp_stop_crc returned last, since the work item was
\*              last queued: "no" (it has not returned), "ok", "err"
\*   late       whether a CRC triple went to drm_crtc_add_crc_entry after
\*              drm_dp_stop_crc returned, and what it had returned
\*   waits      vblank waits the work item has come out of since
\*              drm_dp_stop_crc cleared DP_TEST_SINK_START (at most MaxWaits
\*              are counted)
\*   polls      calls of drm_dp_aux_get_crc in the current pass of the loop
\*              of the work item (at most MaxPolls are counted)
\*   sent       calls of drm_crtc_add_crc_entry in the current pass
\*   poll       the last drm_dp_aux_get_crc of the current pass: the
\*              TEST_CRC_COUNT it saw (-1: it did not get that far, or no
\*              call yet) and what it returned
\*   lost       the TEST_CRC_COUNT of a sample whose CRC bytes could not be
\*              read, while aux->crc_count still holds it (-1: none)
\*   started    what drm_dp_start_crc returned last: "no" (it has not
\*              returned), "ok", "err"
\* The other bits of the sink's DP_TEST_SINK are in others, and buf is the
\* local buf of drm_dp_start_crc and drm_dp_stop_crc between their read and
\* their write (0 outside).
CrcIdle ==
  [opened |-> FALSE, start |-> FALSE, crtc |-> FALSE, crc_count |-> 0,
   pending |-> FALSE, work |-> "none", ctl |-> "idle",
   stopped |-> "no", late |-> "no", waits |-> 0,
   polls |-> 0, sent |-> 0, poll |-> [count |-> -1, ret |-> 0],
   lost |-> -1, started |-> "no", others |-> 0, buf |-> 0]

\* Values the bits of DP_TEST_SINK other than DP_TEST_SINK_START may have.
SinkOthers == {0, 2}

\* The byte a read of DP_TEST_SINK returns.
TestSink(c) == (IF c.start THEN DP_TEST_SINK_START ELSE 0) + c.others

\* A write that sets DP_TEST_SINK_START and clears the other bits.
StartOnly(buf) == DP_TEST_SINK_START

\* Line 1166: buf | DP_TEST_SINK_START.
StartValue(buf) ==
  IF (buf \div DP_TEST_SINK_START) % 2 = 1 THEN buf
  ELSE buf + DP_TEST_SINK_START

\* Line 1193: buf & ~DP_TEST_SINK_START.
StopValue(buf) ==
  IF (buf \div DP_TEST_SINK_START) % 2 = 1 THEN buf - DP_TEST_SINK_START
  ELSE buf

\* The sink after a write of v to DP_TEST_SINK.
SinkWritten(c, v) ==
  [c EXCEPT !.start = (v \div DP_TEST_SINK_START) % 2 = 1,
            !.others = v - ((v \div DP_TEST_SINK_START) % 2)
                             * DP_TEST_SINK_START]

\* What the three reads of drm_dp_aux_get_crc may meet: the read that fails
\* (0: none) with its error, and the TEST_CRC_COUNT the sink shows.
GetCrcOutcomes ==
  {out \in [fail : 0..3, err : DpcdErrors, count : CrcCounts] :
     out.fail = 0 => out.err = -EIO}

\* A drm_dp_aux_get_crc that stores the count once the CRC bytes are read.
CountAfterRead(count, out) ==
  IF out.fail \in {1, 2} THEN [ret |-> out.err, crc_count |-> count]
  ELSE IF out.count = count THEN [ret |-> -EAGAIN, crc_count |-> count]
  ELSE IF out.fail = 3 THEN [ret |-> out.err, crc_count |-> count]
  ELSE [ret |-> 0, crc_count |-> out.count]

\* drm_dp_aux_get_crc (lines 973-1004) with aux->crc_count = count: its
\* result and the new aux->crc_count.
drm_dp_aux_get_crc(count, out) ==
  IF out.fail \in {1, 2} THEN [ret |-> out.err, crc_count |-> count]
  ELSE IF out.count = count THEN [ret |-> -EAGAIN, crc_count |-> count]
  ELSE IF out.fail = 3 THEN [ret |-> out.err, crc_count |-> out.count]
  ELSE [ret |-> 0, crc_count |-> out.count]

\* Line 1019: the loop of drm_dp_aux_crc_work goes on.
WorkContinues(opened) == opened

\* Lines 1021-1022: the work item goes on after its vblank wait.
VblankContinues(opened) == opened

\* Line 1197: flush_work returns when the work item is neither queued nor
\* running.
FlushDone(pending, work) == ~pending /\ work = "none"

\* Lines 1040-1043: drm_crtc_add_crc_entry is called with a CRC triple.
AddCrcEntry(c) ==
  [c EXCEPT !.late = IF c.stopped # "no" THEN c.stopped ELSE @,
            !.sent = Min(@ + 1, MaxPolls)]

\* A work item that polls again after every -EAGAIN.
RetryAlways(c, r, again) ==
  LET c1 == [c EXCEPT !.crc_count = r.crc_count]
  IN  IF r.ret = -EAGAIN THEN [c1 EXCEPT !.work = "usleep"]
      ELSE IF r.ret # 0 THEN [c1 EXCEPT !.work = "head"]
      ELSE [AddCrcEntry(c1) EXCEPT !.work = "head"]

\* Lines 1024-1043: the work item after a drm_dp_aux_get_crc that returned
\* r.ret: -EAGAIN leads to the retry when there is one left, another error
\* to the next pass, 0 to drm_crtc_add_crc_entry.
AfterGetCrc(c, r, again) ==
  LET c1 == [c EXCEPT !.crc_count = r.crc_count]
  IN  IF r.ret = -EAGAIN /\ again THEN [c1 EXCEPT !.work = "usleep"]
      ELSE IF r.ret # 0 THEN [c1 EXCEPT !.work = "head"]
      ELSE [AddCrcEntry(c1) EXCEPT !.work = "head"]

\* The observers after a drm_dp_aux_get_crc that met out, returned r.ret
\* and took the capture from c0 to c.
Polled(c, c0, out, r) ==
  [c EXCEPT !.polls = Min(@ + 1, MaxPolls),
            !.poll = [count |-> IF out.fail \in {1, 2} THEN -1
                                ELSE out.count,
                      ret |-> r.ret],
            !.lost = IF out.fail = 3 /\ out.count # c0.crc_count
                     THEN out.count
                     ELSE IF c.crc_count # c0.crc_count THEN -1 ELSE @]

\* The parts of the state the capture leaves alone.
CrcFrame ==
  UNCHANGED <<hw_mutex, is_remote, pc, call, phase, msg, retry, ret, err,
              obs, issued, i2c, lastRet, counters, ddc, calc>>

\* The CRC debugfs code sets crtc->crc.opened.
CrcOpen ==
  /\ ~crc.opened
  /\ crc' = [crc EXCEPT !.opened = TRUE]
  /\ CrcFrame

\* The CRC debugfs code clears crtc->crc.opened.
CrcRelease ==
  /\ crc.opened
  /\ crc' = [crc EXCEPT !.opened = FALSE]
  /\ CrcFrame

\* drm_dp_start_crc is called and reads DP_TEST_SINK (lines 1162-1165).
CrcStartCall ==
  /\ ddc.algo
  /\ crc.ctl = "idle"
  /\ \E r \in DpcdResults :
       crc' = IF r < 0 THEN [crc EXCEPT !.started = "err"]
              ELSE [crc EXCEPT !.ctl = "start", !.buf = TestSink(crc)]
  /\ CrcFrame

\* drm_dp_start_crc writes DP_TEST_SINK and queues the work item (lines
\* 1167-1175).
CrcStartWrite ==
  /\ crc.ctl = "start"
  /\ \E r \in DpcdResults :
       crc' = IF r < 0
              THEN [crc EXCEPT !.ctl = "idle", !.started = "err", !.buf = 0]
              ELSE [SinkWritten(crc, StartValue(crc.buf)) EXCEPT
                      !.ctl = "idle", !.crc_count = 0, !.crtc = TRUE,
                      !.pending = TRUE, !.stopped = "no", !.late = "no",
                      !.waits = 0, !.lost = -1, !.started = "ok",
                      !.buf = 0]
  /\ CrcFrame

\* drm_dp_stop_crc is called and reads DP_TEST_SINK (lines 1189-1191).
CrcStopCall ==
  /\ ddc.algo
  /\ crc.ctl = "idle"
  /\ \E r \in DpcdResults :
       crc' = IF r < 0 THEN [crc EXCEPT !.stopped = "err"]
              ELSE [crc EXCEPT !.ctl = "stop", !.buf = TestSink(crc)]
  /\ CrcFrame

\* drm_dp_stop_crc writes DP_TEST_SINK and goes on to flush_work (lines
\* 1193-1197).
CrcStopWrite ==
  /\ crc.ctl = "stop"
  /\ \E r \in DpcdResults :
       crc' = IF r < 0
              THEN [crc EXCEPT !.ctl = "idle", !.stopped = "err", !.buf = 0]
              ELSE [SinkWritten(crc, StopValue(crc.buf)) EXCEPT
                      !.ctl = "flush", !.waits = 0, !.buf = 0]
  /\ CrcFrame

\* flush_work returns and drm_dp_stop_crc returns 0 (lines 1197-1200).
CrcStopFlush ==
  /\ crc.ctl = "flush"
  /\ FlushDone(crc.pending, crc.work)
  /\ crc' = [crc EXCEPT !.ctl = "idle", !.crtc = FALSE, !.stopped = "ok"]
  /\ CrcFrame

\* A kernel worker begins drm_dp_aux_crc_work (lines 1006-1018).
WorkRun ==
  /\ crc.pending
  /\ crc.work = "none"
  /\ crc' = [crc EXCEPT !.pending = FALSE,
                        !.work = IF crc.crtc THEN "head" ELSE "none"]
  /\ CrcFrame

\* The loop condition of drm_dp_aux_crc_work (line 1019).
WorkHead ==
  /\ crc.work = "head"
  /\ crc' = [crc EXCEPT !.work = IF WorkContinues(crc.opened)
                                 THEN "vblank" ELSE "none",
                        !.polls = 0, !.sent = 0, !.poll = CrcIdle.poll]
  /\ CrcFrame

\* drm_crtc_wait_one_vblank returns (lines 1020-1022).
WorkVblank ==
  /\ crc.work = "vblank"
  /\ crc' = [crc EXCEPT
               !.work = IF VblankContinues(crc.opened) THEN "get" ELSE "none",
               !.waits = IF ~crc.start THEN Min(@ + 1, MaxWaits) ELSE @]
  /\ CrcFrame

\* The first drm_dp_aux_get_crc of a pass returns (lines 1024-1043).
WorkGetCrc ==
  /\ crc.work = "get"
  /\ \E out \in GetCrcOutcomes :
       LET r == drm_dp_aux_get_crc(crc.crc_count, out)
       IN  crc' = Polled(AfterGetCrc(crc, r, TRUE), crc, out, r)
  /\ CrcFrame

\* usleep_range(1000, 2000) returns (line 1026).
WorkUsleep ==
  /\ crc.work = "usleep"
  /\ crc' = [crc EXCEPT !.work = "retry"]
  /\ CrcFrame

\* The second drm_dp_aux_get_crc of a pass returns (lines 1027-1043).
WorkRetry ==
  /\ crc.work = "retry"
  /\ \E out \in GetCrcOutcomes :
       LET r == drm_dp_aux_get_crc(crc.crc_count, out)
       IN  crc' = Polled(AfterGetCrc(crc, r, FALSE), crc, out, r)
  /\ CrcFrame

CrcStep ==
  \/ CrcOpen
  \/ CrcRelease
  \/ CrcStartCall
  \/ CrcStartWrite
  \/ CrcStopCall
  \/ CrcStopWrite
  \/ CrcStopFlush
  \/ WorkRun
  \/ WorkHead
  \/ WorkVblank
  \/ WorkGetCrc
  \/ WorkUsleep
  \/ WorkRetry

(***************************************************************************)
(* drm_dp_aux_init, drm_dp_aux_register and drm_dp_aux_unregister.         *)
(***************************************************************************)
\* Errors drm_dp_aux_register_devnode and i2c_add_adapter may return.
RegisterErrors == {-EINVAL, -EBUSY}

\* The registration of a channel:
\*   algo     aux->ddc.algo is set (drm_dp_aux_init has run)
\*   devnode  the device node of the channel exists
\*   adapter  aux->ddc is added to the I2C core
\*   at       where drm_dp_aux_register stands: "idle", "devnode" (line
\*            1093), "adapter" (line 1097)
\* and the observers
\*   inits    runs of drm_dp_aux_init
\*   result   what drm_dp_aux_register returned last (1: it has not returned)
\*   step     the call that failed in it: "none", "devnode", "adapter"
DdcZero ==
  [algo |-> FALSE, devnode |-> FALSE, adapter |-> FALSE, at |-> "idle",
   inits |-> 0, result |-> 1, step |-> "none"]

\* drm_dp_aux_init (lines 1056-1067).
drm_dp_aux_init(d) == [d EXCEPT !.algo = TRUE, !.inits = @ + 1]

\* The channel after drm_dp_aux_init.
DdcInitialised == drm_dp_aux_init(DdcZero)

\* Lines 1083-1084: drm_dp_aux_register initialises the channel.
RegisterInits(algo) == ~algo

\* Lines 1097-1101: the device node after i2c_add_adapter returned r.
DevnodeAfterAdapter(devnode, r) == IF r # 0 THEN FALSE ELSE devnode

\* The parts of the state the registration leaves alone.
DdcFrame ==
  UNCHANGED <<hw_mutex, is_remote, pc, call, phase, msg, retry, ret, err,
              obs, issued, i2c, lastRet, counters, crc, calc>>

\* The driver calls drm_dp_aux_init on a channel it has not initialised.
AuxInit ==
  /\ ddc.at = "idle"
  /\ ~ddc.algo
  /\ ddc' = drm_dp_aux_init(ddc)
  /\ DdcFrame

\* drm_dp_aux_register is called on a channel that is not registered (lines
\* 1079-1091).
RegisterCall ==
  /\ ddc.at = "idle"
  /\ ~ddc.devnode /\ ~ddc.adapter
  /\ ddc' = [(IF RegisterInits(ddc.algo) THEN drm_dp_aux_init(ddc) ELSE ddc)
               EXCEPT !.at = "devnode", !.result = 1, !.step = "none"]
  /\ DdcFrame

\* drm_dp_aux_register_devnode returns (lines 1093-1095).
RegisterDevnode ==
  /\ ddc.at = "devnode"
  /\ \E r \in RegisterErrors \cup {0} :
       ddc' = IF r # 0
              THEN [ddc EXCEPT !.at = "idle", !.result = r,
                               !.step = "devnode"]
              ELSE [ddc EXCEPT !.at = "adapter", !.devnode = TRUE]
  /\ DdcFrame

\* i2c_add_adapter returns (lines 1097-1103).
RegisterAdapter ==
  /\ ddc.at = "adapter"
  /\ \E r \in RegisterErrors \cup {0} :
       ddc' = [ddc EXCEPT !.at = "idle", !.result = r,
                          !.step = IF r # 0 THEN "adapter" ELSE "none",
                          !.adapter = r = 0,
                          !.devnode = DevnodeAfterAdapter(@, r)]
  /\ DdcFrame

\* drm_dp_aux_unregister on a registered channel (lines 1110-1114).
Unregister ==
  /\ ddc.at = "idle"
  /\ ddc.devnode /\ ddc.adapter
  /\ ddc' = [ddc EXCEPT !.devnode = FALSE, !.adapter = FALSE]
  /\ DdcFrame

DdcStep ==
  \/ AuxInit
  \/ RegisterCall
  \/ RegisterDevnode
  \/ RegisterAdapter
  \/ Unregister

(***************************************************************************)
(* Decoding helpers: pure functions of status and capability bytes.        *)
(***************************************************************************)
\* Register addresses and fields the helpers use.
DP_LANE_ALIGN_STATUS_UPDATED == 516
DP_INTERLANE_ALIGN_DONE == 1
DP_LANE_CR_DONE == 1
DP_CHANNEL_EQ_BITS == 7
DP_LINK_STATUS_SIZE == 6

\* x >> s.
Shr(x, s) == x \div (2 ^ s)

\* A C array with the elements of the tuple s: indices start at 0.
Bytes(s) == [i \in 0..(Len(s) - 1) |-> s[i + 1]]

\* ARRAY_SIZE.
ArraySize(t) == Cardinality(DOMAIN t)

\* dp_link_status (lines 47-52).
dp_link_status(link_status, r) == link_status[r - DP_LANE0_1_STATUS]

\* dp_get_lane_status that reads the low half of the byte for every lane.
LowLaneStatus(link_status, lane) ==
  BitAnd(dp_link_status(link_status, DP_LANE0_1_STATUS + Shr(lane, 1)), 15)

\* dp_get_lane_status (lines 54-61).
dp_get_lane_status(link_status, lane) ==
  LET i == DP_LANE0_1_STATUS + Shr(lane, 1)
      s == BitAnd(lane, 1) * 4
      l == dp_link_status(link_status, i)
  IN  BitAnd(Shr(l, s), 15)

\* A lane that counts as equalised as soon as one bit of the group is set.
LaneEqAny(lane_status) == BitAnd(lane_status, DP_CHANNEL_EQ_BITS) # 0

\* Line 76 negated: the lane passes the channel equalisation test.
LaneEqOk(lane_status) ==
  BitAnd(lane_status, DP_CHANNEL_EQ_BITS) = DP_CHANNEL_EQ_BITS

\* A clock recovery test that looks at the bit above the equalisation group.
LaneCrAbove(lane_status) == BitAnd(lane_status, DP_CHANNEL_EQ_BITS + 1) # 0

\* Line 90 negated: the lane passes the clock recovery test.
LaneCrOk(lane_status) == BitAnd(lane_status, DP_LANE_CR_DONE) # 0

\* The loop of drm_dp_channel_eq_ok from lane on (lines 74-79).
RECURSIVE ChannelEqLoop(_, _, _)
ChannelEqLoop(link_status, lane_count, lane) ==
  IF lane >= lane_count THEN TRUE
  ELSE IF ~LaneEqOk(dp_get_lane_status(link_status, lane)) THEN FALSE
  ELSE ChannelEqLoop(link_status, lane_count, lane + 1)

\* drm_dp_channel_eq_ok (lines 63-80).
drm_dp_channel_eq_ok(link_status, lane_count) ==
  LET lane_align == dp_link_status(link_status, DP_LANE_ALIGN_STATUS_UPDATED)
  IN  IF BitAnd(lane_align, DP_INTERLANE_ALIGN_DONE) = 0 THEN FALSE
      ELSE ChannelEqLoop(link_status, lane_count, 0)

\* The loop of drm_dp_clock_recovery_ok from lane on (lines 89-94).
RECURSIVE ClockRecoveryLoop(_, _, _)
ClockRecoveryLoop(link_status, lane_count, lane) ==
  IF lane >= lane_count THEN TRUE
  ELSE IF ~LaneCrOk(dp_get_lane_status(link_status, lane)) THEN FALSE
  ELSE ClockRecoveryLoop(link_status, lane_count, lane + 1)

\* drm_dp_clock_recovery_ok (lines 83-95).
drm_dp_clock_recovery_ok(link_status, lane_count) ==
  ClockRecoveryLoop(link_status, lane_count, 0)

\* A conversion to a bandwidth code of seven bits.
BwCodeNarrow(link_rate) == (link_rate \div 27000) % 128

\* drm_dp_link_rate_to_bw_code (lines 170-175); the result is a u8.
drm_dp_link_rate_to_bw_code(link_rate) == (link_rate \div 27000) % 256

\* drm_dp_bw_code_to_link_rate (lines 177-182).
drm_dp_bw_code_to_link_rate(link_bw) == link_bw * 27000

\* Fields of the receiver and downstream port capabilities.
DP_RECEIVER_CAP_SIZE == 15
DP_DOWNSTREAMPORT_PRESENT == 5
DP_DETAILED_CAP_INFO_AVAILABLE == 16
DP_DS_PORT_TYPE_MASK == 7
DP_DS_PORT_TYPE_VGA == 1
DP_DS_PORT_TYPE_DVI == 2
DP_DS_PORT_TYPE_HDMI == 3
DP_DS_PORT_TYPE_DP_DUALMODE == 5
DP_DS_MAX_BPC_MASK == 3
DP_DS_8BPC == 0
DP_DS_10BPC == 1
DP_DS_12BPC == 2
DP_DS_16BPC == 3

\* drm_dp_downstream_max_clock (lines 435-456).
drm_dp_downstream_max_clock(dpcd, port_cap) ==
  LET type == BitAnd(port_cap[0], DP_DS_PORT_TYPE_MASK)
      detailed_cap_info ==
        BitAnd(dpcd[DP_DOWNSTREAMPORT_PRESENT],
               DP_DETAILED_CAP_INFO_AVAILABLE) # 0
  IN  IF ~detailed_cap_info THEN 0
      ELSE CASE type = DP_DS_PORT_TYPE_VGA -> port_cap[1] * 8 * 1000
             [] type \in {DP_DS_PORT_TYPE_DVI, DP_DS_PORT_TYPE_HDMI,
                          DP_DS_PORT_TYPE_DP_DUALMODE} -> port_cap[1] * 2500
             [] OTHER -> 0

\* drm_dp_downstream_max_bpc (lines 466-498).
drm_dp_downstream_max_bpc(dpcd, port_cap) ==
  LET type == BitAnd(port_cap[0], DP_DS_PORT_TYPE_MASK)
      detailed_cap_info ==
        BitAnd(dpcd[DP_DOWNSTREAMPORT_PRESENT],
               DP_DETAILED_CAP_INFO_AVAILABLE) # 0
      bpc == BitAnd(port_cap[2], DP_DS_MAX_BPC_MASK)
  IN  IF ~detailed_cap_info THEN 0
      ELSE IF type \in {DP_DS_PORT_TYPE_VGA, DP_DS_PORT_TYPE_DVI,
                        DP_DS_PORT_TYPE_HDMI, DP_DS_PORT_TYPE_DP_DUALMODE}
      THEN CASE bpc = DP_DS_8BPC -> 8
             [] bpc = DP_DS_10BPC -> 10
             [] bpc = DP_DS_12BPC -> 12
             [] bpc = DP_DS_16BPC -> 16
             [] OTHER -> 0
      ELSE 0

\* The setup time field of the PSR capabilities.
EDP_PSR_RECEIVER_CAP_SIZE == 2
DP_PSR_SETUP_TIME_MASK == 14
DP_PSR_SETUP_TIME_SHIFT == 1

\* psr_setup_time_us (lines 1129-1137).
psr_setup_time_us == Bytes(<<330, 275, 220, 165, 110, 55, 0>>)

\* drm_dp_psr_setup_time that answers 0 to a code outside the table.
PsrSetupNeverFails(psr_cap) ==
  LET i == Shr(BitAnd(psr_cap[1], DP_PSR_SETUP_TIME_MASK),
               DP_PSR_SETUP_TIME_SHIFT)
  IN  IF i >= ArraySize(psr_setup_time_us) THEN 0 ELSE psr_setup_time_us[i]

\* drm_dp_psr_setup_time (lines 1127-1145).
drm_dp_psr_setup_time(psr_cap) ==
  LET i == Shr(BitAnd(psr_cap[1], DP_PSR_SETUP_TIME_MASK),
               DP_PSR_SETUP_TIME_SHIFT)
  IN  IF i >= ArraySize(psr_setup_time_us) THEN -EINVAL
      ELSE psr_setup_time_us[i]

\* Fields of the DSC capabilities.
DP_DSC_RECEIVER_CAP_SIZE == 15
DP_DSC_SUPPORT == 96
DP_DSC_SLICE_CAP_1 == 100
DP_DSC_1_PER_DP_DSC_SINK == 1
DP_DSC_2_PER_DP_DSC_SINK == 2
DP_DSC_4_PER_DP_DSC_SINK == 8
DP_DSC_6_PER_DP_DSC_SINK == 16
DP_DSC_8_PER_DP_DSC_SINK == 32
DP_DSC_10_PER_DP_DSC_SINK == 64
DP_DSC_12_PER_DP_DSC_SINK == 128
DP_DSC_SLICE_CAP_2 == 109
DP_DSC_16_PER_DP_DSC_SINK == 1
DP_DSC_20_PER_DP_DSC_SINK == 2
DP_DSC_24_PER_DP_DSC_SINK == 4
DP_DSC_LINE_BUF_BIT_DEPTH == 101
DP_DSC_LINE_BUF_BIT_DEPTH_MASK == 15
DP_DSC_LINE_BUF_BIT_DEPTH_9 == 0
DP_DSC_LINE_BUF_BIT_DEPTH_10 == 1
DP_DSC_LINE_BUF_BIT_DEPTH_11 == 2
DP_DSC_LINE_BUF_BIT_DEPTH_12 == 3
DP_DSC_LINE_BUF_BIT_DEPTH_13 == 4
DP_DSC_LINE_BUF_BIT_DEPTH_14 == 5
DP_DSC_LINE_BUF_BIT_DEPTH_15 == 6
DP_DSC_LINE_BUF_BIT_DEPTH_16 == 7
DP_DSC_LINE_BUF_BIT_DEPTH_8 == 8
DP_DSC_DEC_COLOR_DEPTH_CAP == 106
DP_DSC_8_BPC == 2
DP_DSC_10_BPC == 4
DP_DSC_12_BPC == 8

\* drm_dp_dsc_sink_max_slice_count (lines 1403-1441).
drm_dp_dsc_sink_max_slice_count(dsc_dpcd, is_edp) ==
  LET slice_cap1 == dsc_dpcd[DP_DSC_SLICE_CAP_1 - DP_DSC_SUPPORT]
      slice_cap2 == dsc_dpcd[DP_DSC_SLICE_CAP_2 - DP_DSC_SUPPORT]
      Has(cap, bit) == BitAnd(cap, bit) # 0
  IN  IF is_edp
      THEN IF Has(slice_cap1, DP_DSC_4_PER_DP_DSC_SINK) THEN 4
           ELSE IF Has(slice_cap1, DP_DSC_2_PER_DP_DSC_SINK) THEN 2
           ELSE IF Has(slice_cap1, DP_DSC_1_PER_DP_DSC_SINK) THEN 1
           ELSE 0
      ELSE IF Has(slice_cap2, DP_DSC_24_PER_DP_DSC_SINK) THEN 24
      ELSE IF Has(slice_cap2, DP_DSC_20_PER_DP_DSC_SINK) THEN 20
      ELSE IF Has(slice_cap2, DP_DSC_16_PER_DP_DSC_SINK) THEN 16
      ELSE IF Has(slice_cap1, DP_DSC_12_PER_DP_DSC_SINK) THEN 12
      ELSE IF Has(slice_cap1, DP_DSC_10_PER_DP_DSC_SINK) THEN 10
      ELSE IF Has(slice_cap1, DP_DSC_8_PER_DP_DSC_SINK) THEN 8
      ELSE IF Has(slice_cap1, DP_DSC_6_PER_DP_DSC_SINK) THEN 6
      ELSE IF Has(slice_cap1, DP_DSC_4_PER_DP_DSC_SINK) THEN 4
      ELSE IF Has(slice_cap1, DP_DSC_2_PER_DP_DSC_SINK) THEN 2
      ELSE IF Has(slice_cap1, DP_DSC_1_PER_DP_DSC_SINK) THEN 1
      ELSE 0

\* drm_dp_dsc_sink_line_buf_depth (lines 1460-1488).
drm_dp_dsc_sink_line_buf_depth(dsc_dpcd) ==
  LET line_buf_depth == dsc_dpcd[DP_DSC_LINE_BUF_BIT_DEPTH - DP_DSC_SUPPORT]
      code == BitAnd(line_buf_depth, DP_DSC_LINE_BUF_BIT_DEPTH_MASK)
  IN  CASE code = DP_DSC_LINE_BUF_BIT_DEPTH_9 -> 9
        [] code = DP_DSC_LINE_BUF_BIT_DEPTH_10 -> 10
        [] code = DP_DSC_LINE_BUF_BIT_DEPTH_11 -> 11
        [] code = DP_DSC_LINE_BUF_BIT_DEPTH_12 -> 12
        [] code = DP_DSC_LINE_BUF_BIT_DEPTH_13 -> 13
        [] code = DP_DSC_LINE_BUF_BIT_DEPTH_14 -> 14
        [] code = DP_DSC_LINE_BUF_BIT_DEPTH_15 -> 15
        [] code = DP_DSC_LINE_BUF_BIT_DEPTH_16 -> 16
        [] code = DP_DSC_LINE_BUF_BIT_DEPTH_8 -> 8
        [] OTHER -> 0

\* drm_dp_dsc_sink_supported_input_bpcs (lines 1508-1523): the values
\* written to dsc_bpc, in order, and their number as the result.
drm_dp_dsc_sink_supported_input_bpcs(dsc_dpcd) ==
  LET color_depth == dsc_dpcd[DP_DSC_DEC_COLOR_DEPTH_CAP - DP_DSC_SUPPORT]
      dsc_bpc ==
        (IF BitAnd(color_depth, DP_DSC_12_BPC) # 0 THEN <<12>> ELSE <<>>)
        \o (IF BitAnd(color_depth, DP_DSC_10_BPC) # 0 THEN <<10>> ELSE <<>>)
        \o (IF BitAnd(color_depth, DP_DSC_8_BPC) # 0 THEN <<8>> ELSE <<>>)
  IN  [num_bpc |-> Len(dsc_bpc), dsc_bpc |-> dsc_bpc]

\* No decoding helper has been called.
NoCalc == [fn |-> "none"]

\* A call of a decoding helper: the helper, its arguments a and b, and, once
\* it has returned (done), its result.
Called(name, first, second) ==
  [fn |-> name, a |-> first, b |-> second, out |-> 0, done |-> FALSE]

\* calc after the helper returned v.
Returned(c, v) == [c EXCEPT !.out = v, !.done = TRUE]

\* The array of n bytes that holds v at index i and fill elsewhere.
ArrayWith(n, i, v, fill) == [k \in 0..(n - 1) |-> IF k = i THEN v ELSE fill]

\* Status of one lane: nothing, clock recovery only, all but clock recovery,
\* all three bits, and all three with the reserved bit.
LaneStatuses == {0, 1, 6, 7, 15}

\* Values of DP_LANE_ALIGN_STATUS_UPDATED.
LaneAligns == {0, 1, 128, 129}

\* Link status arrays: four lanes, the align byte, and the three remaining
\* bytes all zero or all ones.
LinkStatuses ==
  { Bytes(<<l0 + 16 * l1, l2 + 16 * l3, al, x, x, x>>) :
      <<l0, l1, l2, l3, al, x>> \in
        LaneStatuses \X LaneStatuses \X LaneStatuses \X LaneStatuses
          \X LaneAligns \X {0, 255} }

LaneCounts == {1, 2, 4}

\* Receiver capabilities with the given DP_DOWNSTREAMPORT_PRESENT byte.
Dpcds ==
  { ArrayWith(DP_RECEIVER_CAP_SIZE, DP_DOWNSTREAMPORT_PRESENT, v, 0) :
      v \in {0, 16, 239, 255} }

\* Downstream port capabilities: every type with and without higher bits,
\* three clock bytes, every bpc code with and without higher bits.
PortCaps ==
  { Bytes(<<t, c, b, 0>>) : <<t, c, b>> \in (0..15) \X {0, 1, 255} \X (0..7) }

\* DSC capabilities with the two slice capability bytes.
DscSliceCaps ==
  { [k \in 0..(DP_DSC_RECEIVER_CAP_SIZE - 1) |->
       IF k = DP_DSC_SLICE_CAP_1 - DP_DSC_SUPPORT THEN v[1]
       ELSE IF k = DP_DSC_SLICE_CAP_2 - DP_DSC_SUPPORT THEN v[2] ELSE 0] :
      v \in (0..255) \X (0..7) }

\* The calls of the decoding helpers.
CalcCalls ==
  { Called("drm_dp_clock_recovery_ok", s, n) :
      <<s, n>> \in LinkStatuses \X LaneCounts }
  \cup { Called("drm_dp_channel_eq_ok", s, n) :
           <<s, n>> \in LinkStatuses \X LaneCounts }
  \cup { Called("drm_dp_bw_code_to_link_rate", c, 0) : c \in 0..255 }
  \cup { Called("drm_dp_downstream_max_clock", d, p) :
           <<d, p>> \in Dpcds \X {q \in PortCaps : q[2] = 0} }
  \cup { Called("drm_dp_downstream_max_bpc", d, p) :
           <<d, p>> \in Dpcds \X {q \in PortCaps : q[1] = 0} }
  \cup { Called("drm_dp_psr_setup_time",
                ArrayWith(EDP_PSR_RECEIVER_CAP_SIZE, 1, v, 0), 0) :
           v \in 0..255 }
  \cup { Called("drm_dp_dsc_sink_max_slice_count", d, e) :
           <<d, e>> \in DscSliceCaps \X BOOLEAN }
  \cup { Called("drm_dp_dsc_sink_line_buf_depth",
                ArrayWith(DP_DSC_RECEIVER_CAP_SIZE,
                          DP_DSC_LINE_BUF_BIT_DEPTH - DP_DSC_SUPPORT, v, 255),
                0) : v \in 0..255 }
  \cup { Called("drm_dp_dsc_sink_supported_input_bpcs",
                ArrayWith(DP_DSC_RECEIVER_CAP_SIZE,
                          DP_DSC_DEC_COLOR_DEPTH_CAP - DP_DSC_SUPPORT, v, 0),
                0) : v \in 0..255 }

\* The parts of the state the decoding helpers leave alone.
CalcFrame ==
  UNCHANGED <<hw_mutex, is_remote, pc, call, phase, msg, retry, ret, err,
              obs, issued, i2c, lastRet, counters, crc, ddc>>

\* The helper name is called and returns.
Pending(name) == calc.fn = name /\ ~calc.done

ClockRecoveryOk ==
  /\ Pending("drm_dp_clock_recovery_ok")
  /\ calc' = Returned(calc, drm_dp_clock_recovery_ok(calc.a, calc.b))
  /\ CalcFrame

ChannelEqOk ==
  /\ Pending("drm_dp_channel_eq_ok")
  /\ calc' = Returned(calc, drm_dp_channel_eq_ok(calc.a, calc.b))
  /\ CalcFrame

BwCodeToLinkRate ==
  /\ Pending("drm_dp_bw_code_to_link_rate")
  /\ calc' = Returned(calc, drm_dp_bw_code_to_link_rate(calc.a))
  /\ CalcFrame

\* The caller converts the link rate it got back to a bandwidth code; b keeps
\* the code the rate came from.
LinkRateToBwCode ==
  /\ calc.fn = "drm_dp_bw_code_to_link_rate" /\ calc.done
  /\ calc' = Returned(Called("drm_dp_link_rate_to_bw_code", calc.out, calc.a),
                      drm_dp_link_rate_to_bw_code(calc.out))
  /\ CalcFrame

DownstreamMaxClock ==
  /\ Pending("drm_dp_downstream_max_clock")
  /\ calc' = Returned(calc, drm_dp_downstream_max_clock(calc.a, calc.b))
  /\ CalcFrame

DownstreamMaxBpc ==
  /\ Pending("drm_dp_downstream_max_bpc")
  /\ calc' = Returned(calc, drm_dp_downstream_max_bpc(calc.a, calc.b))
  /\ CalcFrame

PsrSetupTime ==
  /\ Pending("drm_dp_psr_setup_time")
  /\ calc' = Returned(calc, drm_dp_psr_setup_time(calc.a))
  /\ CalcFrame

DscSinkMaxSliceCount ==
  /\ Pending("drm_dp_dsc_sink_max_slice_count")
  /\ calc' = Returned(calc, drm_dp_dsc_sink_max_slice_count(calc.a, calc.b))
  /\ CalcFrame

DscSinkLineBufDepth ==
  /\ Pending("drm_dp_dsc_sink_line_buf_depth")
  /\ calc' = Returned(calc, drm_dp_dsc_sink_line_buf_depth(calc.a))
  /\ CalcFrame

DscSinkSupportedInputBpcs ==
  /\ Pending("drm_dp_dsc_sink_supported_input_bpcs")
  /\ calc' = Returned(calc, drm_dp_dsc_sink_supported_input_bpcs(calc.a))
  /\ CalcFrame

CalcStep ==
  \/ ClockRecoveryOk
  \/ ChannelEqOk
  \/ BwCodeToLinkRate
  \/ LinkRateToBwCode
  \/ DownstreamMaxClock
  \/ DownstreamMaxBpc
  \/ PsrSetupTime
  \/ DscSinkMaxSliceCount
  \/ DscSinkLineBufDepth
  \/ DscSinkSupportedInputBpcs

(***************************************************************************)
(* Specification.                                                          *)
(***************************************************************************)
\* The transaction engine of a channel after drm_dp_aux_init.
EngineInit ==
  /\ hw_mutex = 0
  /\ is_remote \in BOOLEAN
  /\ pc = [t \in Threads |-> "idle"]
  /\ call = [t \in Threads |-> NoCall]
  /\ phase = [t \in Threads |-> "none"]
  /\ msg = [t \in Threads |-> NoMsg]
  /\ retry = [t \in Threads |-> 0]
  /\ ret = [t \in Threads |-> 0]
  /\ err = [t \in Threads |-> 0]
  /\ obs = [t \in Threads |-> NoObs]
  /\ issued = [t \in Threads |-> <<>>]
  /\ i2c = I2cIdle
  /\ lastRet = NoRet
  /\ i2c_nack_count = 0
  /\ i2c_defer_count = 0

Init ==
  /\ EngineInit
  /\ crc = CrcIdle
  /\ ddc = DdcInitialised
  /\ calc = NoCalc

Next ==
  \/ \E t \in Threads : NativeStep(t)
  \/ I2cStep

Spec == Init /\ [][Next]_vars

(***************************************************************************)
(* AuxSpec: the life of a channel from its allocation: initialisation,     *)
(* registration and frame CRC capture.                                     *)
(***************************************************************************)
AuxSpecInit ==
  /\ EngineInit
  /\ \E others \in SinkOthers : crc = [CrcIdle EXCEPT !.others = others]
  /\ ddc = DdcZero
  /\ calc = NoCalc

AuxNext ==
  \/ CrcStep
  \/ DdcStep

AuxSpec == AuxSpecInit /\ [][AuxNext]_vars

\* A kernel worker runs the work item and every call in it returns;
\* flush_work returns once the work item is done.
AuxFairSpec ==
  /\ AuxSpec
  /\ WF_vars(WorkRun)
  /\ WF_vars(WorkHead)
  /\ WF_vars(WorkVblank)
  /\ WF_vars(WorkGetCrc)
  /\ WF_vars(WorkUsleep)
  /\ WF_vars(WorkRetry)
  /\ WF_vars(CrcStopFlush)

(***************************************************************************)
(* CalcSpec: one call of a decoding helper on bytes read from the sink.    *)
(***************************************************************************)
CalcInit ==
  /\ EngineInit
  /\ crc = CrcIdle
  /\ ddc = DdcInitialised
  /\ calc \in CalcCalls

CalcNext == CalcStep

CalcSpec == CalcInit /\ [][CalcNext]_vars

(***************************************************************************)
(* Specifications of the I2C-over-AUX engine on a direct channel.  Each    *)
(* pairs a family of exchanges with a family of sinks.                     *)
(***************************************************************************)
I2cInit ==
  /\ Init
  /\ ~is_remote

\* Values of the module parameter dp_aux_i2c_speed_khz (line 704): the ends
\* of the range its description names, and the default.
I2cSpeeds == {1, dp_aux_i2c_speed_khz, 400}

\* A call of drm_dp_i2c_xfer is followed while the counters of the channel
\* are at most MaxCarried.
CountersCarried ==
  /\ i2c_nack_count <= MaxCarried
  /\ i2c_defer_count <= MaxCarried

(***************************************************************************)
(* I2cSpec: exchanges of no message or of one short message, a sink that   *)
(* may give every reply, the counters of the channel followed from 0, and  *)
(* native writes of one thread between the exchanges.                      *)
(***************************************************************************)
\* The i2c_msg arrays handed to drm_dp_i2c_xfer and dp_aux_i2c_speed_khz.
I2cCalls ==
  [msgs : {<<>>}, speed_khz : I2cSpeeds]
    \cup [msgs : {<<m>> : m \in [rd : {TRUE}, stop : {FALSE}, len : {0},
                                 addr : {80}]
                           \cup [rd : {FALSE}, stop : {TRUE}, len : {1},
                                 addr : {80}]},
          speed_khz : {400}]

\* Byte counts a raw transfer may report for a message of n bytes: nothing,
\* ten bytes, all of it.
I2cCounts(n) == {0, 10, n} \cap (0..n)

\* What one call of aux->transfer may produce for an I2C-over-AUX message.
\* An I2C-level DEFER is drawn while the channel has counted fewer than
\* MaxDefers of them.
I2cAllOutcomes(m) ==
  {out \in [ret : TransportErrors, reply : {DP_AUX_NATIVE_REPLY_ACK}]
             \cup [ret : I2cCounts(m.size), reply : I2cReplies] :
     I2cOutKind(out) = "i2c defer" => i2c_defer_count < MaxDefers}

\* The I2C core calls lock_bus and drm_dp_i2c_xfer.
I2cXferCall ==
  /\ CountersCarried
  /\ \E c \in I2cCalls :
       I2cXferEnter(c.msgs, DP_AUX_MAX_PAYLOAD_BYTES, c.speed_khz)

\* aux->transfer returns inside drm_dp_i2c_do_msg (line 731).
I2cXferTransfer ==
  \E out \in I2cAllOutcomes(i2c.cur) : I2cTransferReturns(out)

\* drm_dp_dpcd_write is called by thread 1; the call is followed while the
\* counters of the channel are at most MaxCounted.
I2cWriteCall ==
  /\ i2c_nack_count <= MaxCounted
  /\ i2c_defer_count <= MaxCounted
  /\ DpcdWrite(1)

I2cNext ==
  \/ I2cXferCall
  \/ I2cXferTransfer
  \/ I2cSleep
  \/ I2cDoMsgReturn
  \/ I2cUnlockBus
  \/ I2cWriteCall
  \/ Sleep(1)
  \/ Transfer(1)
  \/ MutexUnlock(1)

I2cSpec == I2cInit /\ [][I2cNext]_vars

\* A raw transfer and a usleep_range return, and a function that has returned
\* lets its caller go on: the I2C thread holds hw_mutex through its exchange
\* and waits for nothing.
I2cFairSpec ==
  /\ I2cSpec
  /\ WF_vars(I2cXferTransfer)
  /\ WF_vars(I2cSleep)
  /\ WF_vars(I2cDoMsgReturn)
  /\ WF_vars(I2cUnlockBus)

(***************************************************************************)
(* DeferSpec: exchanges of one message of every length up to one AUX       *)
(* payload, under every bus speed, with a sink that answers every          *)
(* transaction with native ACK and I2C DEFER or with a full ACK.           *)
(***************************************************************************)
DeferMsgs ==
  [rd : BOOLEAN, stop : BOOLEAN, len : 0..DP_AUX_MAX_PAYLOAD_BYTES,
   addr : {80}]

\* An I2C-level DEFER is drawn while the channel has counted fewer than
\* MaxDefers of them.
DeferOutcomes(m) ==
  {out \in [ret : {m.size},
            reply : {DP_AUX_NATIVE_REPLY_ACK + DP_AUX_I2C_REPLY_ACK,
                     DP_AUX_NATIVE_REPLY_ACK + DP_AUX_I2C_REPLY_DEFER}] :
     I2cOutKind(out) = "i2c defer" => i2c_defer_count < MaxDefers}

DeferCall ==
  /\ CountersCarried
  /\ \E m \in DeferMsgs, speed_khz \in I2cSpeeds :
       I2cXferEnter(<<m>>, DP_AUX_MAX_PAYLOAD_BYTES, speed_khz)

DeferTransfer ==
  \E out \in DeferOutcomes(i2c.cur) : I2cTransferReturns(out)

DeferNext ==
  \/ DeferCall
  \/ DeferTransfer
  \/ I2cSleep
  \/ I2cDoMsgReturn
  \/ I2cUnlockBus

DeferSpec == I2cInit /\ [][DeferNext]_vars

(***************************************************************************)
(* BusySpec: exchanges of one message of every length with a transfer      *)
(* function that is busy: each call of it returns -EBUSY until, if ever, it *)
(* times out or the sink acknowledges all bytes.                           *)
(***************************************************************************)
BusyOutcomes(m) ==
  [ret : {-EBUSY, -ETIMEDOUT}, reply : {DP_AUX_NATIVE_REPLY_ACK}]
    \cup [ret : {m.size},
          reply : {DP_AUX_NATIVE_REPLY_ACK + DP_AUX_I2C_REPLY_ACK}]

BusyCall ==
  /\ i2c.pc = "idle"
  /\ \E m \in DeferMsgs, speed_khz \in I2cSpeeds :
       I2cXferEnter(<<m>>, DP_AUX_MAX_PAYLOAD_BYTES, speed_khz)

BusyTransfer ==
  /\ i2c.pc = "xfer"
  /\ \E out \in BusyOutcomes(i2c.cur) : I2cTransferReturns(out)

BusyNext ==
  \/ BusyCall
  \/ BusyTransfer
  \/ I2cDoMsgReturn
  \/ I2cUnlockBus

BusySpec == I2cInit /\ [][BusyNext]_vars

(***************************************************************************)
(* ShortSpec: exchanges of one message of two or three bytes with a sink   *)
(* that acknowledges some or all of the bytes asked for, or answers with   *)
(* an I2C DEFER.                                                           *)
(***************************************************************************)
ShortMsgs == [rd : BOOLEAN, stop : BOOLEAN, len : {2, 3}, addr : {80}]

\* An I2C-level DEFER is drawn while the channel has counted fewer than
\* MaxDefers of them.
ShortOutcomes(m) ==
  {out \in [ret : (IF m.size = 0 THEN {0} ELSE 1..m.size),
            reply : {DP_AUX_NATIVE_REPLY_ACK + DP_AUX_I2C_REPLY_ACK,
                     DP_AUX_NATIVE_REPLY_ACK + DP_AUX_I2C_REPLY_DEFER}] :
     I2cOutKind(out) = "i2c defer" => i2c_defer_count < MaxDefers}

ShortCall ==
  /\ CountersCarried
  /\ \E m \in ShortMsgs :
       I2cXferEnter(<<m>>, DP_AUX_MAX_PAYLOAD_BYTES, dp_aux_i2c_speed_khz)

ShortTransfer ==
  /\ i2c.pc = "xfer"
  /\ \E out \in ShortOutcomes(i2c.cur) : I2cTransferReturns(out)

ShortNext ==
  \/ ShortCall
  \/ ShortTransfer
  \/ I2cSleep
  \/ I2cDoMsgReturn
  \/ I2cUnlockBus

ShortSpec == I2cInit /\ [][ShortNext]_vars

(***************************************************************************)
(* ClampSpec: exchanges of one message while dp_aux_i2c_transfer_size, a   *)
(* module parameter of mode 0644 (lines 868-869), is written through sysfs. *)
(* drm_dp_i2c_xfer reads the parameter without a lock, at line 883 and     *)
(* again at line 910 for every message.                                    *)
(***************************************************************************)
\* Values of the parameter when an exchange starts.
ClampParams == {-1, 0, 1, 3, DP_AUX_MAX_PAYLOAD_BYTES,
                DP_AUX_MAX_PAYLOAD_BYTES + 1}

\* Values written to the parameter while an exchange runs.  (A negative
\* value, which line 910 converts to unsigned, is left out.)
ClampStores == {0, 1, DP_AUX_MAX_PAYLOAD_BYTES + 1}

\* A write of four bytes and a read of an AUX payload and two bytes.
ClampMsgs ==
  {[rd |-> FALSE, stop |-> TRUE, len |-> 4, addr |-> 80],
   [rd |-> TRUE, stop |-> TRUE, len |-> DP_AUX_MAX_PAYLOAD_BYTES + 2,
    addr |-> 80]}

\* The sink acknowledges one byte or all bytes, or the transfer times out.
ClampOutcomes(m) ==
  [ret : {-ETIMEDOUT}, reply : {DP_AUX_NATIVE_REPLY_ACK}]
    \cup [ret : {1, m.size} \cap (0..m.size),
          reply : {DP_AUX_NATIVE_REPLY_ACK + DP_AUX_I2C_REPLY_ACK}]

ClampCall ==
  /\ i2c.pc = "idle"
  /\ \E m \in ClampMsgs, size \in ClampParams :
       I2cXferEnter(<<m>>, size, dp_aux_i2c_speed_khz)

ClampTransfer ==
  /\ i2c.pc = "xfer"
  /\ \E out \in ClampOutcomes(i2c.cur) : I2cTransferReturns(out)

\* param_set_int stores a value in dp_aux_i2c_transfer_size while
\* drm_dp_i2c_xfer runs.
ParamStore ==
  /\ i2c.pc \in {"xfer", "ret"}
  /\ \E v \in ClampStores \ {i2c.dp_aux_i2c_transfer_size} :
       i2c' = [i2c EXCEPT !.dp_aux_i2c_transfer_size = v]
  /\ UNCHANGED <<hw_mutex, is_remote, pc, call, phase, msg, retry, ret, err,
                 obs, issued, lastRet>>
  /\ UNCHANGED <<counters, rest>>

ClampNext ==
  \/ ClampCall
  \/ ClampTransfer
  \/ ParamStore
  \/ I2cDoMsgReturn
  \/ I2cUnlockBus

ClampSpec == I2cInit /\ [][ClampNext]_vars

(***************************************************************************)
(* XferSpec: exchanges of up to MaxI2cMsgs messages of up to two AUX       *)
(* payloads and a byte, with a sink that gives no I2C-level NACK or DEFER  *)
(* (the replies that leave the counters of the channel alone).             *)
(***************************************************************************)
\* Values of the module parameter dp_aux_i2c_transfer_size (line 868) when an
\* exchange starts.
XferParamSizes == {DP_AUX_MAX_PAYLOAD_BYTES}

\* The i2c_msg of an exchange: a bare address, a one-byte write that is
\* followed by more, and a read of two AUX payloads and a byte that ends the
\* I2C transaction.
XferMsgs ==
  {[rd |-> FALSE, stop |-> TRUE, len |-> 0, addr |-> 80],
   [rd |-> FALSE, stop |-> FALSE, len |-> 1, addr |-> 80],
   [rd |-> TRUE, stop |-> TRUE, len |-> 2 * DP_AUX_MAX_PAYLOAD_BYTES + 1,
    addr |-> 80]}

RECURSIVE SeqsUpTo(_, _)
\* The sequences over S of length at most n.
SeqsUpTo(S, n) ==
  IF n = 0 THEN {<<>>}
  ELSE LET T == SeqsUpTo(S, n - 1)
       IN  T \cup {Append(q, x) : q \in T, x \in S}

\* The i2c_msg arrays handed to drm_dp_i2c_xfer.
XferExchanges == SeqsUpTo(XferMsgs, MaxI2cMsgs)

\* Byte counts a raw transfer may report for a message of n bytes: nothing,
\* one byte, ten bytes, all of it.
XferCounts(n) == {0, 1, 10, n} \cap (0..n)

\* What one call of aux->transfer may produce.
XferOutcomes(m) ==
  [ret : TransportErrors, reply : {DP_AUX_NATIVE_REPLY_ACK}]
    \cup [ret : XferCounts(m.size), reply : I2cUncountedReplies]

\* The I2C core calls lock_bus and drm_dp_i2c_xfer.
XferCall ==
  /\ i2c.pc = "idle"
  /\ \E msgs \in XferExchanges, size \in XferParamSizes :
       I2cXferEnter(msgs, size, dp_aux_i2c_speed_khz)

\* aux->transfer returns inside drm_dp_i2c_do_msg (line 731).
XferTransfer ==
  \E out \in XferOutcomes(i2c.cur) : I2cTransferReturns(out)

XferNext ==
  \/ XferCall
  \/ XferTransfer
  \/ I2cSleep
  \/ I2cDoMsgReturn
  \/ I2cUnlockBus

XferSpec == I2cInit /\ [][XferNext]_vars

(***************************************************************************)
(* ChunkSpec: exchanges of one or two messages, a write of three bytes and *)
(* a read of two, sent in chunks of at most two bytes to a sink that       *)
(* answers with an I2C ACK for some or all of the bytes or with an I2C     *)
(* DEFER.                                                                  *)
(***************************************************************************)
\* The i2c_msg arrays handed to drm_dp_i2c_xfer.
ChunkExchanges ==
  SeqsUpTo({[rd |-> FALSE, stop |-> FALSE, len |-> 3, addr |-> 80],
            [rd |-> TRUE, stop |-> TRUE, len |-> 2, addr |-> 80]}, 2)
    \ {<<>>}

\* The I2C core calls lock_bus and drm_dp_i2c_xfer with the module parameter
\* dp_aux_i2c_transfer_size at 2.
ChunkCall ==
  /\ CountersCarried
  /\ \E msgs \in ChunkExchanges :
       I2cXferEnter(msgs, 2, dp_aux_i2c_speed_khz)

ChunkNext ==
  \/ ChunkCall
  \/ ShortTransfer
  \/ I2cSleep
  \/ I2cDoMsgReturn
  \/ I2cUnlockBus

ChunkSpec == I2cInit /\ [][ChunkNext]_vars

(***************************************************************************)
(* Properties.                                                             *)
(***************************************************************************)
\* Thread t is inside the retry loop of drm_dp_dpcd_access or at its unlock
\* label.
InAccess(t) == pc[t] \in {"xfer", "sleep", "unlock"}
\* Thread t is outside drm_dp_dpcd_access or still waiting in mutex_lock.
OutsideAccess(t) == pc[t] \in {"idle", "lock", "mst"}
\* The number of raw transfer calls in progress.
TransfersInProgress ==
  Cardinality({t \in Threads : pc[t] = "xfer"})
    + (IF i2c.pc = "xfer" THEN 1 ELSE 0)
\* The call that returned last was made on a direct channel.
DirectReturn == lastRet.fn # "none" /\ ~lastRet.remote
\* The error drm_dp_dpcd_access derives from an outcome of a raw transfer.
ErrorOf(first) ==
  IF first.kind = "error" THEN first.ret
  ELSE IF first.kind = "short" THEN -EPROTO
  ELSE -EIO

\* C1: for every interleaving of native DPCD reads and writes on one direct
\* channel and of I2C exchanges bracketed by lock_bus/unlock_bus, at most one
\* raw transfer call is in progress at any time, and the thread making it
\* holds the channel lock.
C1_OneTransferAtATime ==
  /\ TransfersInProgress <= 1
  /\ \A t \in Threads : pc[t] = "xfer" => hw_mutex = t
  /\ i2c.pc = "xfer" => hw_mutex = I2cThread

\* An I2C exchange is in a raw transfer while every native thread waits in
\* mutex_lock for its requested read.
C1_Witness ==
  /\ i2c.pc = "xfer"
  /\ \A t \in Threads : pc[t] = "lock"

C3_NackThenAck ==
  \A t \in Threads :
    pc[t] = "unlock" /\ obs[t].nackRun >= 0 =>
      /\ (ret[t] = obs[t].acc.size) <=> (obs[t].nackRun < 32)
      /\ obs[t].nackRun >= 32 => ret[t] = -EIO
      /\ obs[t].nackRun < 32 => obs[t].calls = obs[t].nackRun + 1

\* The 32nd attempt of an access is ACKed in full after 31 NACKs.
C3_Witness ==
  \E t \in Threads :
    /\ pc[t] = "unlock"
    /\ obs[t].nackRun = 31
    /\ obs[t].calls = 32
    /\ ret[t] = obs[t].acc.size

C5_EioOnNakOrExhaustion ==
  DirectReturn =>
    /\ lastRet.access.exhausted => lastRet.result = -EIO
    /\ lastRet.result < 0 /\ lastRet.access.first.kind = "nack" =>
         lastRet.result = -EIO

\* C6: a call on a direct channel whose attempts ended with an ACK carrying a
\* partial count returns -EPROTO.
C6_EprotoOnShortAck ==
  DirectReturn /\ lastRet.result < 0 /\ lastRet.access.lastErr = -EPROTO =>
    lastRet.result = -EPROTO

\* C7: -EBUSY from the raw transfer is never the value a call on a direct
\* channel returns, and a failed call whose first attempt got another
\* transport error returns that error.
C7_EbusyNeverReturned ==
  DirectReturn =>
    /\ lastRet.result # -EBUSY
    /\ lastRet.result < 0 /\ lastRet.access.first.kind = "error"
         /\ lastRet.access.first.ret # -EBUSY =>
           lastRet.result = lastRet.access.first.ret

\* C8: every native access takes the channel lock exactly once and has
\* released it when it returns, on the success path, on the error path and on
\* retry exhaustion; when no access and no I2C exchange is running the lock is
\* free.
C8_LockBalanced ==
  /\ \A t \in Threads :
       /\ OutsideAccess(t) => hw_mutex # t
       /\ pc[t] = "unlock" => obs[t].acq = 1
       /\ \A k \in DOMAIN issued[t] : issued[t][k].acq = 1
  /\ \A k \in DOMAIN lastRet.issued : lastRet.issued[k].acq = 1
  /\ (\A t \in Threads : OutsideAccess(t)) /\ i2c.pc = "idle" => hw_mutex = 0

\* A call has returned on retry exhaustion, nothing else runs, and the lock
\* is free.
C8_Witness ==
  /\ DirectReturn
  /\ lastRet.access.exhausted
  /\ lastRet.issued # <<>>
  /\ \A t \in Threads : pc[t] = "idle"
  /\ i2c.pc = "idle"
  /\ hw_mutex = 0

\* What is left of the retry loop for thread t: it decreases with every step
\* the thread takes inside drm_dp_dpcd_access.
Remaining(t) ==
  IF pc[t] = "xfer" THEN 2 * (32 - retry[t]) + 2
  ELSE IF pc[t] = "sleep" THEN 2 * (32 - retry[t]) + 3
  ELSE IF pc[t] = "unlock" THEN 1
  ELSE 0

\* C9: one access calls the raw transfer at least once and at most 32 times,
\* each time with the request kind, offset and size it was entered with; it
\* makes no call after the first full ACK; and it terminates: inside the loop
\* the thread can always take a step, and every step brings it closer to the
\* return.
C9_BoundedAttempts ==
  /\ [](\A t \in Threads :
          /\ obs[t].calls <= 32
          /\ obs[t].sameMsg
          /\ pc[t] = "unlock" => obs[t].calls >= 1
          /\ pc[t] \in {"xfer", "sleep"} => ~obs[t].acked /\ obs[t].calls < 32
          /\ InAccess(t) => ENABLED NativeStep(t))
  /\ [][\A t \in Threads :
          InAccess(t) /\ <<pc[t], retry[t]>>' # <<pc[t], retry[t]>> =>
            Remaining(t)' < Remaining(t)]_vars

\* An access returns the requested size from its third raw transfer.
C9_Witness ==
  \E t \in Threads :
    /\ pc[t] = "unlock"
    /\ obs[t].calls = 3
    /\ obs[t].acked
    /\ ret[t] = obs[t].acc.size

\* C10: on a direct channel drm_dp_dpcd_read first makes a 1-byte native read
\* at offset 0; if that does not return 1 the requested read is never issued
\* and the throwaway's result is returned; otherwise the requested read is
\* made next and its result is returned. drm_dp_dpcd_write makes the requested
\* write only.
C10_ThrowawayRead ==
  /\ \A t \in Threads :
       /\ phase[t] = "throwaway" => issued[t] = <<>> /\ call[t].fn = "read"
       /\ phase[t] = "throwaway" /\ InAccess(t) =>
            obs[t].acc = [address |-> 0, request |-> DP_AUX_NATIVE_READ,
                          size |-> 1]
       /\ phase[t] = "real" /\ call[t].fn = "read" /\ pc[t] # "mst" =>
            /\ Len(issued[t]) = 1
            /\ issued[t][1].ret = 1
            /\ issued[t][1].msg = [address |-> 0,
                                   request |-> DP_AUX_NATIVE_READ, size |-> 1]
       /\ call[t].fn = "write" => issued[t] = <<>> /\ phase[t] = "real"
  /\ DirectReturn /\ lastRet.fn = "read" =>
       /\ Len(lastRet.issued) >= 1
       /\ lastRet.issued[1].msg = [address |-> 0,
                                   request |-> DP_AUX_NATIVE_READ, size |-> 1]
       /\ IF lastRet.issued[1].ret # 1
          THEN /\ Len(lastRet.issued) = 1
               /\ lastRet.result = lastRet.issued[1].ret
          ELSE /\ Len(lastRet.issued) = 2
               /\ lastRet.issued[2].msg =
                    [address |-> lastRet.offset,
                     request |-> DP_AUX_NATIVE_READ, size |-> lastRet.size]
               /\ lastRet.result = lastRet.issued[2].ret
  /\ DirectReturn /\ lastRet.fn = "write" =>
       /\ Len(lastRet.issued) = 1
       /\ lastRet.issued[1].msg =
            [address |-> lastRet.offset,
             request |-> DP_AUX_NATIVE_WRITE, size |-> lastRet.size]
       /\ lastRet.result = lastRet.issued[1].ret

\* A read has returned the error of its throwaway read without issuing the
\* requested read.
C10_Witness ==
  /\ DirectReturn
  /\ lastRet.fn = "read"
  /\ Len(lastRet.issued) = 1
  /\ lastRet.result = -EIO

\* C11: on a channel whose is_remote flag is set, drm_dp_dpcd_read and
\* drm_dp_dpcd_write hand the call to the MST collaborator and return its
\* result unchanged: no thread calls the raw transfer function or takes the
\* channel lock, and no throwaway read is made.
C11_RemoteDelegates ==
  /\ is_remote =>
       /\ \A t \in Threads :
            /\ pc[t] \in {"idle", "mst"}
            /\ hw_mutex # t
            /\ obs[t] = NoObs
            /\ issued[t] = <<>>
            /\ phase[t] # "throwaway"
       /\ lastRet.fn # "none" =>
            /\ lastRet.remote
            /\ lastRet.result = lastRet.got
            /\ lastRet.issued = <<>>
            /\ lastRet.access = NoSummary
  /\ \A t \in Threads : pc[t] = "mst" => is_remote
  /\ lastRet.remote => is_remote

\* A read on a remote channel has returned the error of the MST collaborator
\* while another thread is inside the collaborator.
C11_Witness ==
  /\ is_remote
  /\ lastRet.fn = "read"
  /\ lastRet.remote
  /\ lastRet.result = -ETIMEDOUT
  /\ \E t \in Threads : pc[t] = "mst" /\ call[t].fn = "write"

(***************************************************************************)
(* Claims about drm_dp_i2c_do_msg.                                         *)
(***************************************************************************)
\* drm_dp_i2c_do_msg is returning i2c.v to its caller.
DoMsgDone == i2c.pc = "ret"

\* Every raw transfer of the drm_dp_i2c_do_msg in progress but the last was
\* answered with native ACK and I2C DEFER.
OnlyDefersBefore == i2c.io.defers >= i2c.io.calls - 1

\* C12: when the sink answers a transaction with native ACK and I2C DEFER D
\* times, D from 0 to 7, and then with an ACK for all its bytes,
\* drm_dp_i2c_do_msg returns the byte count of the transaction, whatever its
\* size from 0 to DP_AUX_MAX_PAYLOAD_BYTES, its direction and the bus speed;
\* it has not given up before.
C12_DefersThenAck ==
  /\ i2c.pc \in {"xfer", "sleep", "ret"} =>
       /\ i2c.io.sent.size \in 0..DP_AUX_MAX_PAYLOAD_BYTES
       /\ i2c.speed_khz \in I2cSpeeds
       /\ OnlyDefersBefore
  /\ DoMsgDone /\ i2c.io.defers <= 7 =>
       /\ i2c.io.last.kind = "ack"
       /\ i2c.io.calls = i2c.io.defers + 1
       /\ i2c.v = i2c.io.sent.size
  /\ DoMsgDone /\ i2c.v # i2c.io.sent.size =>
       /\ i2c.io.defers > 7
       /\ i2c.v = -EREMOTEIO

C12_Witness ==
  /\ DoMsgDone
  /\ i2c.step = "data"
  /\ i2c.io.sent.size = DP_AUX_MAX_PAYLOAD_BYTES
  /\ i2c.speed_khz = 400
  /\ i2c.io.defers = 7
  /\ i2c.io.calls = 8
  /\ i2c.v = DP_AUX_MAX_PAYLOAD_BYTES

\* C13: in drm_dp_i2c_do_msg a negative result of aux->transfer other than
\* -EBUSY (-ETIMEDOUT among them) ends the message at once: the same value
\* is returned and no raw transfer follows for the message.
C13_ErrorEndsMessage ==
  /\ i2c.pc \in {"xfer", "sleep"} => i2c.io.last.kind # "error"
  /\ DoMsgDone /\ i2c.io.last.kind = "error" =>
       /\ i2c.io.last.ret \in TransportErrors \ {-EBUSY}
       /\ i2c.v = i2c.io.last.ret
  /\ i2c.pc \in {"xfer", "sleep"} /\ i2c.step \in {"open", "data"} =>
       i2c.xo.fail = 0

C13_Witness ==
  /\ DoMsgDone
  /\ i2c.step = "data"
  /\ i2c.io.calls > 1
  /\ i2c.io.last = [kind |-> "error", ret |-> -ETIMEDOUT]
  /\ i2c.v = -ETIMEDOUT

\* The replies of the sink that refuse a transaction: a native NACK, an I2C
\* NACK under a native ACK, and the reply codes the protocol does not define.
RefusedKinds == {"native nack", "i2c nack", "native invalid", "i2c invalid"}

\* C14: a native NACK, or an I2C NACK under a native ACK, is terminal for
\* drm_dp_i2c_do_msg: it returns -EREMOTEIO at once and does not retry; an
\* undefined native or I2C reply code is handled the same way.
C14_NackIsTerminal ==
  /\ i2c.pc \in {"xfer", "sleep"} => i2c.io.last.kind \notin RefusedKinds
  /\ DoMsgDone /\ i2c.io.last.kind \in RefusedKinds => i2c.v = -EREMOTEIO

C14_Witness ==
  /\ DoMsgDone
  /\ i2c.io.sent.size = 1
  /\ i2c.io.calls > 1
  /\ i2c.io.last.kind = "i2c nack"
  /\ i2c.v = -EREMOTEIO

\* drm_dp_i2c_do_msg is in progress.
InDoMsg == i2c.pc \in {"xfer", "sleep", "ret"}

\* The limit on the raw transfers of the drm_dp_i2c_do_msg in progress: its
\* retry budget, and one more for each I2C DEFER it received, up to 7.
CallLimit == i2c.max_retries + Min(7, i2c.io.defers)

\* The drm_dp_i2c_do_msg that is returning was left without a final reply:
\* its latest raw transfer returned -EBUSY, or it has slept after a DEFER.
LeftByLimit == DoMsgDone /\ i2c.io.last.kind \in {"none", "busy"}

C15_Limit ==
  /\ InDoMsg =>
       /\ i2c.max_retries >= 7
       /\ i2c.io.calls <= CallLimit
       /\ CallLimit <= i2c.max_retries + 7
  /\ LeftByLimit =>
       /\ i2c.io.calls = CallLimit
       /\ i2c.v = -EREMOTEIO
  /\ DoMsgDone /\ i2c.io.defers = i2c.io.calls =>
       /\ i2c.io.calls = i2c.max_retries + 7
       /\ i2c.v = -EREMOTEIO

\* C15: drm_dp_i2c_do_msg always terminates and makes at most budget + 7 raw
\* transfers, budget being max_retries (at least 7): each I2C DEFER extends
\* the limit by one, up to 7 in total, native DEFER and -EBUSY do not; at the
\* limit it returns -EREMOTEIO, and a sink that always answers I2C DEFER
\* gets exactly budget + 7 raw transfers.
C15_BoundedCalls ==
  /\ []C15_Limit
  /\ InDoMsg ~> DoMsgDone

C15_Witness ==
  /\ DoMsgDone
  /\ i2c.io.defers = i2c.io.calls
  /\ i2c.io.calls = i2c.max_retries + 7
  /\ i2c.v = -EREMOTEIO

(***************************************************************************)
(* Claims about drm_dp_i2c_xfer and drm_dp_i2c_drain_msg.                  *)
(***************************************************************************)
\* A chunk of message i2c.i is being drained.
InChunk == i2c.pc \in {"xfer", "sleep", "ret"} /\ i2c.step = "data"

\* What the drain of the current chunk reports when it ends now: the smallest
\* short reply it saw, else the size of the chunk.
DrainReported ==
  IF i2c.xo.short > 0 THEN i2c.xo.short ELSE i2c.msg.size

\* The chunk sizes of the current message so far.
C16_Chunks ==
  InChunk =>
    /\ i2c.xo.chunks = 1 =>
         /\ i2c.j = 0
         /\ i2c.msg.size =
              Min(i2c.dp_aux_i2c_transfer_size, i2c.msgs[i2c.i].len)
    /\ i2c.xo.chunks > 1 => i2c.msg.size <= i2c.xo.prev
    /\ i2c.xo.full /\ i2c.msgs[i2c.i].len = 33
         /\ i2c.dp_aux_i2c_transfer_size = 16 =>
         <<i2c.xo.chunks, i2c.j, i2c.msg.size>>
           \in {<<1, 0, 16>>, <<2, 16, 16>>, <<3, 32, 1>>}

\* A drain returns and the next chunk of the same message begins.
C16_NextChunk ==
  InChunk /\ i2c.pc = "ret" /\ i2c'.step = "data"
    /\ i2c'.xo.chunks = i2c.xo.chunks + 1 =>
    /\ i2c'.i = i2c.i
    /\ i2c'.j = i2c.j + i2c.msg.size
    /\ i2c'.transfer_size = DrainReported
    /\ i2c'.msg.size = Min(DrainReported, i2c.msgs[i2c.i].len - i2c'.j)

\* C16: within one I2C message the chunk size starts at the configured
\* transfer size and after every chunk is set to what the drain reported (the
\* smallest short reply seen, else the chunk size): it never increases within
\* a message and starts again at the configured size for the next message.  A
\* 33-byte message with transfer size 16 goes out as chunks of 16, 16 and 1
\* when every raw transfer is answered in full, and a short first reply of 10
\* makes the following chunks at most 10.
C16_ChunkSizes ==
  /\ []C16_Chunks
  /\ [][C16_NextChunk]_vars

C16_Witness ==
  /\ InChunk
  /\ i2c.i = 2
  /\ i2c.msgs[i2c.i].len = 33
  /\ i2c.xo.chunks = 2
  /\ i2c.xo.prev = 16
  /\ i2c.msg.size = 10

\* The drm_dp_i2c_do_msg of a chunk returns v <= 0: the drain stops and
\* drm_dp_i2c_xfer, left with the value of the drain, goes to the close.
C17_DrainStops ==
  InChunk /\ i2c.pc = "ret" /\ i2c.v <= 0 =>
    /\ i2c'.step = "close"
    /\ i2c'.xo.chunks = i2c.xo.chunks
    /\ i2c'.xo.fail = IF i2c.v = 0 THEN -EPROTO ELSE i2c.v
    /\ i2c'.err = i2c'.xo.fail

\* C17: while a message is drained, an attempt that reports 0 bytes for a
\* remaining size above 0 is a protocol error: the drain stops and returns
\* -EPROTO; a negative result of an attempt stops the drain and is returned
\* as it is.
C17_DrainErrors ==
  /\ [](InChunk => i2c.cur.size > 0)
  /\ [][C17_DrainStops]_vars

C17_Witness ==
  /\ i2c.step = "close"
  /\ i2c.xo.chunks = 2
  /\ i2c.xo.fail = -EPROTO
  /\ i2c.err = -EPROTO

\* The messages of the exchange whose address packet has gone out when the
\* exchange is at its close: all of them, or those up to the failing one.
Opened == IF i2c.xo.failAt > 0 THEN i2c.xo.failAt ELSE Len(i2c.msgs)

\* A bare address packet: a transaction without data.
IsBare(sent) == sent.size = 0

C18_Packets ==
  /\ InDoMsg /\ i2c.step = "open" =>
       /\ IsBare(i2c.io.sent)
       /\ i2c.io.sent.address = i2c.msgs[i2c.i].addr
       /\ i2c.io.sent.request = drm_dp_i2c_msg_set_request(i2c.msgs[i2c.i])
       /\ i2c.xo.bare = i2c.i
       /\ i2c.xo.chunks = 0
  /\ InChunk =>
       /\ ~IsBare(i2c.io.sent)
       /\ i2c.xo.bare = i2c.i
  /\ i2c.step = "close" =>
       /\ i2c.pc \in {"xfer", "sleep", "ret", "unlock"}
       /\ IsBare(i2c.io.sent)
       /\ BitAnd(i2c.io.sent.request, DP_AUX_I2C_MOT) = 0
       /\ i2c.xo.bare = Opened + 1
  /\ i2c.pc = "unlock" => i2c.step = "close"

\* An exchange starts, at the close when it has no message; a failed open or
\* chunk is followed by the close; after the close the exchange is over.
C18_Order ==
  /\ i2c.pc = "idle" /\ i2c'.pc # "idle" =>
       i2c'.step = IF Len(i2c'.msgs) = 0 THEN "close" ELSE "open"
  /\ i2c.pc = "ret" /\ i2c.step \in {"open", "data"} /\ i2c.v < 0 =>
       i2c'.step = "close"
  /\ i2c.step = "close" => i2c'.step = "close" \/ i2c'.pc = "idle"

\* C18: every I2C exchange opens each message with a zero-length address
\* packet before any of its data, and ends with exactly one closing
\* transaction, zero-length with DP_AUX_I2C_MOT cleared; the close is the
\* last transaction of the exchange, issued also after a failed open or
\* chunk and for an exchange of no message.
C18_OpenAndClose ==
  /\ []C18_Packets
  /\ [][C18_Order]_vars

C18_Witness ==
  /\ i2c.pc = "unlock"
  /\ Len(i2c.msgs) = 2
  /\ i2c.msgs[1].len = 1
  /\ i2c.xo.failAt = 1
  /\ i2c.xo.chunks = 1
  /\ i2c.xo.bare = 2
  /\ IsBare(i2c.io.sent)

\* drm_dp_i2c_xfer is returning i2c.err; i2c.v is what its close returned.
XferDone == i2c.pc = "unlock"

C19_Return ==
  /\ XferDone /\ i2c.xo.fail = 0 =>
       /\ i2c.err = Len(i2c.msgs)
       /\ i2c.xo.failAt = 0
  /\ XferDone /\ i2c.xo.fail # 0 =>
       /\ i2c.xo.fail < 0
       /\ i2c.err = i2c.xo.fail
       /\ i2c.xo.failAt \in 1..Len(i2c.msgs)
       /\ i2c.i = i2c.xo.failAt
       /\ i2c.xo.bare = i2c.xo.failAt + 1
  /\ i2c.step \in {"open", "data"} /\ i2c.pc \in {"xfer", "sleep"} =>
       i2c.xo.fail = 0

\* The close leaves the value drm_dp_i2c_xfer will return alone.
C19_CloseIgnored ==
  i2c.step = "close" /\ i2c'.step = "close" => i2c'.err = i2c.err

\* C19: the outcome of the closing transaction never changes what
\* drm_dp_i2c_xfer returns: the number of messages when every open and every
\* chunk succeeded, else the negative error of the first failing step, after
\* which no later message of the exchange is attempted.
C19_CloseBestEffort ==
  /\ []C19_Return
  /\ [][C19_CloseIgnored]_vars

C19_Witness ==
  /\ XferDone
  /\ i2c.v = -ETIMEDOUT
  /\ i2c.xo.fail = 0
  /\ Len(i2c.msgs) = 2
  /\ i2c.err = 2

(***************************************************************************)
(* Claims about the counters of the channel.                               *)
(***************************************************************************)
\* A raw transfer of drm_dp_i2c_do_msg returns in this step; the observer
\* holds its outcome in i2c'.io.last.
RawI2cReturn == i2c'.io.calls = i2c.io.calls + 1

\* 1 when the raw transfer returning in this step was answered with kind.
Answered(kind) == IF i2c'.io.last.kind = kind THEN 1 ELSE 0

C20_Step ==
  /\ i2c_nack_count' >= i2c_nack_count
  /\ i2c_defer_count' >= i2c_defer_count
  /\ RawI2cReturn =>
       /\ i2c_nack_count' = i2c_nack_count + Answered("i2c nack")
       /\ i2c_defer_count' = i2c_defer_count + Answered("i2c defer")
  /\ ~RawI2cReturn => UNCHANGED <<counters, rest>>

\* C20: i2c_nack_count and i2c_defer_count never decrease: the first rises
\* by exactly one for each I2C-level NACK reply and the second by exactly one
\* for each I2C-level DEFER reply (those beyond the 7 that extend the loop
\* too); neither changes on a native NACK, a native DEFER, a transport error
\* or a native DPCD access.
C20_Counters ==
  /\ [](i2c_defer_count >= i2c.io.defers)
  /\ [][C20_Step]_vars

C20_Witness ==
  /\ i2c.pc = "sleep"
  /\ i2c.io.last.kind = "i2c defer"
  /\ i2c.io.defers = 9
  /\ i2c_defer_count = 9
  /\ i2c_nack_count = 1

C21_PassNeedsOpened ==
  /\ crc.work = "head" /\ crc'.work = "vblank" => crc.opened
  /\ crc.work = "vblank" /\ crc'.work = "get" => crc.opened
  /\ crc.work \in {"head", "vblank"} /\ ~crc.opened /\ crc'.work # crc.work =>
       crc'.work = "none"

C22_StopWaits ==
  crc.ctl = "flush" /\ crc'.ctl = "idle" =>
    /\ crc.work = "none" /\ ~crc.pending
    /\ crc'.work = "none" /\ ~crc'.pending
    /\ crc'.stopped = "ok"

C23_InitFirst ==
  ddc.at = "idle" /\ ddc'.at = "devnode" =>
    /\ ddc'.algo
    /\ ddc'.inits = ddc.inits + (IF ddc.algo THEN 0 ELSE 1)
    /\ ~ddc'.devnode /\ ~ddc'.adapter

\* What is registered at each point of drm_dp_aux_register and after it.
C23_Registered ==
  /\ ddc.inits <= 1
  /\ ddc.algo <=> ddc.inits = 1
  /\ ddc.at = "devnode" => ddc.algo /\ ~ddc.devnode /\ ~ddc.adapter
  /\ ddc.at = "adapter" => ddc.algo /\ ddc.devnode /\ ~ddc.adapter
  /\ ddc.at = "idle" /\ ddc.result \in RegisterErrors =>
        /\ ~ddc.devnode /\ ~ddc.adapter
        /\ ddc.step \in {"devnode", "adapter"}
  /\ ddc.at = "idle" /\ ddc.result = 0 =>
        ddc.step = "none" /\ (ddc.devnode <=> ddc.adapter)

\* C23: drm_dp_aux_register initialises the channel first if and only if it
\* is not initialised yet, so a channel is initialised once; a registration
\* that failed leaves nothing registered: when the device node cannot be
\* created the adapter is never added, and when adding the adapter fails the
\* device node is removed before the error is returned.
C23_RegisterAllOrNothing ==
  /\ [][C23_InitFirst]_vars
  /\ []C23_Registered

\* drm_dp_aux_register initialised the channel, created the device node,
\* failed to add the adapter and returned the error with nothing registered.
C23_Witness ==
  /\ ddc.at = "idle" /\ ddc.result \in RegisterErrors
  /\ ddc.step = "adapter" /\ ddc.inits = 1
  /\ ~ddc.devnode /\ ~ddc.adapter

\* The clock recovery bit of a lane, by arithmetic on the status bytes: two
\* lanes to a byte, four bits to a lane, the bit of lowest weight.
CrDoneBit(link_status, lane) ==
  (link_status[lane \div 2] \div (IF lane % 2 = 0 THEN 1 ELSE 16)) % 2 = 1

\* C24: for lane counts 1, 2 and 4 and every link status,
\* drm_dp_clock_recovery_ok is true if and only if the clock recovery done
\* bit of every lane below the lane count is set; the lanes from the lane
\* count on and the other bytes do not enter.
C24_ClockRecovery ==
  calc.fn = "drm_dp_clock_recovery_ok" /\ calc.done =>
    (calc.out <=> \A lane \in 0..(calc.b - 1) : CrDoneBit(calc.a, lane))

\* Clock recovery is reported for two lanes although lane 2 and lane 3 have
\* not locked and the remaining bytes are all ones.
C24_Witness ==
  /\ calc.fn = "drm_dp_clock_recovery_ok" /\ calc.done
  /\ calc.out = TRUE /\ calc.b = 2
  /\ calc.a[1] = 0 /\ calc.a[3] = 255

\* The three channel equalisation bits of a lane, by arithmetic.
EqGroup(link_status, lane) ==
  (link_status[lane \div 2] \div (IF lane % 2 = 0 THEN 1 ELSE 16)) % 8

\* C25: drm_dp_channel_eq_ok is true if and only if the inter-lane align
\* done bit is set and the channel equalisation bit group of every lane
\* below the lane count equals the full done mask.
C25_ChannelEq ==
  calc.fn = "drm_dp_channel_eq_ok" /\ calc.done =>
    (calc.out <=>
       /\ calc.a[2] % 2 = 1
       /\ \A lane \in 0..(calc.b - 1) : EqGroup(calc.a, lane) = 7)

\* Four lanes aligned, three of them equalised and one with two of the three
\* bits: the channel is not equalised.
C25_Witness ==
  /\ calc.fn = "drm_dp_channel_eq_ok" /\ calc.done
  /\ calc.out = FALSE /\ calc.b = 4
  /\ calc.a[2] % 2 = 1
  /\ calc.a[0] = 7 + 16 * 7 /\ calc.a[1] = 7 + 16 * 6

\* C26: for every 8-bit code c, drm_dp_bw_code_to_link_rate(c) is 27000 * c
\* and drm_dp_link_rate_to_bw_code of it is c again.
C26_BwCodeRoundTrip ==
  /\ calc.fn = "drm_dp_bw_code_to_link_rate" /\ calc.done =>
       calc.out = 27000 * calc.a
  /\ calc.fn = "drm_dp_link_rate_to_bw_code" /\ calc.done =>
       calc.a = 27000 * calc.b /\ calc.out = calc.b

\* The largest code came back from its link rate.
C26_Witness ==
  /\ calc.fn = "drm_dp_link_rate_to_bw_code" /\ calc.done
  /\ calc.b = 255 /\ calc.a = 6885000 /\ calc.out = 255

\* The decoders of C27.
Decoders ==
  {"drm_dp_downstream_max_clock", "drm_dp_downstream_max_bpc",
   "drm_dp_psr_setup_time", "drm_dp_dsc_sink_max_slice_count",
   "drm_dp_dsc_sink_line_buf_depth", "drm_dp_dsc_sink_supported_input_bpcs"}

\* The number a decoder returned.
Result(c) ==
  IF c.fn = "drm_dp_dsc_sink_supported_input_bpcs" THEN c.out.num_bpc
  ELSE c.out

\* C27 as stated: no decoder ever returns an error code.
C27_AsStated == calc.fn \in Decoders /\ calc.done => Result(calc) >= 0

\* The downstream port type, the detailed capability flag and the PSR setup
\* time code, by arithmetic.
PortType(port_cap) == port_cap[0] % 8
Detailed(dpcd) == (dpcd[5] \div 16) % 2 = 1
SetupCode(psr_cap) == (psr_cap[1] \div 2) % 8

\* The downstream port and DSC decoders return a known value or 0.
C27_Sentinels ==
  /\ calc.fn = "drm_dp_downstream_max_clock" /\ calc.done =>
       /\ calc.out \in {0, calc.b[1] * 8000, calc.b[1] * 2500}
       /\ ~Detailed(calc.a) \/ PortType(calc.b) \in {0, 4, 6, 7} =>
            calc.out = 0
       /\ Detailed(calc.a) /\ PortType(calc.b) = 1 =>
            calc.out = calc.b[1] * 8000
       /\ Detailed(calc.a) /\ PortType(calc.b) \in {2, 3, 5} =>
            calc.out = calc.b[1] * 2500
  /\ calc.fn = "drm_dp_downstream_max_bpc" /\ calc.done =>
       /\ calc.out \in {0, 8, 10, 12, 16}
       /\ calc.out = 0 <=>
            ~Detailed(calc.a) \/ PortType(calc.b) \in {0, 4, 6, 7}
  /\ calc.fn = "drm_dp_dsc_sink_max_slice_count" /\ calc.done =>
       /\ calc.out \in {0, 1, 2, 4, 6, 8, 10, 12, 16, 20, 24}
       /\ calc.b => calc.out \in {0, 1, 2, 4}
  /\ calc.fn = "drm_dp_dsc_sink_line_buf_depth" /\ calc.done =>
       /\ calc.out \in {0} \cup (8..16)
       /\ calc.out = 0 <=> calc.a[5] % 16 > 8
  /\ calc.fn = "drm_dp_dsc_sink_supported_input_bpcs" /\ calc.done =>
       /\ calc.out.num_bpc = Len(calc.out.dsc_bpc)
       /\ calc.out.num_bpc <= 3
       /\ \A k \in 1..Len(calc.out.dsc_bpc) :
            calc.out.dsc_bpc[k] \in {8, 10, 12}
       /\ calc.out.dsc_bpc = <<>> <=> (calc.a[10] \div 2) % 8 = 0

\* C27, amended: the downstream port and DSC decoders never fail, they return
\* a known value or the sentinel 0 (no value written); drm_dp_psr_setup_time
\* returns a setup time of its table for the codes 0 to 6 and the error
\* -EINVAL for the reserved code 7.
C27_DecodersAndPsr ==
  /\ C27_Sentinels
  /\ calc.fn = "drm_dp_psr_setup_time" /\ calc.done =>
       /\ SetupCode(calc.a) <= 6 => calc.out = 330 - 55 * SetupCode(calc.a)
       /\ SetupCode(calc.a) = 7 => calc.out = -EINVAL

\* drm_dp_psr_setup_time was called with the reserved code and returned the
\* error.
C27_Witness ==
  /\ calc.fn = "drm_dp_psr_setup_time" /\ calc.done
  /\ SetupCode(calc.a) = 7 /\ calc.out = -EINVAL

\* Thread t ends an attempt of drm_dp_dpcd_access that failed.
AttemptFailed(t) == pc[t] = "xfer" /\ retry'[t] = retry[t] + 1

\* C28 as stated: after a failed attempt that is not the last the engine
\* waits unless the transfer function reported an error.
C28_AsStated ==
  [][\A t \in Threads :
       AttemptFailed(t) =>
         (pc'[t] = "sleep" <=>
            retry'[t] < MaxNativeRetry /\ ret'[t] \notin TransportErrors)]_vars

\* What follows a failed attempt of thread t: the wait, the next attempt at
\* once, or the end of the loop.
C28_AfterAttempt(t) ==
  AttemptFailed(t) =>
    /\ ret'[t] < 0
    /\ pc'[t] = "sleep" <=>
         retry'[t] < MaxNativeRetry /\ ret'[t] # -ETIMEDOUT
    /\ pc'[t] = "xfer" <=>
         retry'[t] < MaxNativeRetry /\ ret'[t] = -ETIMEDOUT
    /\ pc'[t] = "unlock" <=> retry'[t] = MaxNativeRetry

\* A wait is entered only from an attempt and left only for the next one.
C28_OneWait(t) ==
  /\ pc'[t] = "sleep" /\ pc[t] # "sleep" => AttemptFailed(t)
  /\ pc[t] = "sleep" /\ pc'[t] # "sleep" =>
       pc'[t] = "xfer" /\ retry'[t] = retry[t]

\* C28, amended: between two consecutive attempts of a native DPCD access
\* the engine waits one retry interval (500 to 600 microseconds), except
\* that no wait occurs when the preceding attempt ended in -ETIMEDOUT; after
\* every other failure, the other errors of the transfer function included,
\* it waits.  No wait precedes the first attempt and none follows the last.
C28_RetryWait ==
  /\ RetryWait = 500..600
  /\ [][\A t \in Threads : C28_AfterAttempt(t) /\ C28_OneWait(t)]_vars

\* A thread waits before its next attempt after the transfer function
\* returned -EBUSY.
C28_Witness ==
  \E t \in Threads :
    pc[t] = "sleep" /\ ret[t] = -EBUSY /\ retry[t] >= 1

\* Quotient of a by b, rounded up.
Ceil(a, b) == IF a % b = 0 THEN a \div b ELSE a \div b + 1

\* The retry budget by the formula of C29.
Budget(size, speedKHz) ==
  LET auxDuration == 108 + 8 * size
      i2cDuration == Ceil((11 + 9 * size) * 1000, speedKHz)
      count == Ceil(i2cDuration, auxDuration + 500)
  IN  IF count > 7 THEN count ELSE 7

\* The formula agrees with the code for every size, speed and request, and
\* is at least 7.
C29_Formula ==
  \A size \in 0..DP_AUX_MAX_PAYLOAD_BYTES, speed_khz \in 1..400,
     request \in {DP_AUX_I2C_WRITE, DP_AUX_I2C_READ,
                  DP_AUX_I2C_WRITE + DP_AUX_I2C_MOT,
                  DP_AUX_I2C_READ + DP_AUX_I2C_MOT,
                  DP_AUX_I2C_WRITE_STATUS_UPDATE} :
    LET m == [address |-> 80, request |-> request, size |-> size]
    IN  /\ MaxRetries(m, speed_khz) = Budget(size, speed_khz)
        /\ MaxRetries(m, speed_khz) >= 7

\* The budget of the drm_dp_i2c_do_msg in progress is the one of the message
\* it was entered with, whatever its request has become.
C29_Budget ==
  InDoMsg =>
    /\ i2c.max_retries = Budget(i2c.io.sent.size, i2c.speed_khz)
    /\ i2c.max_retries >= 7

\* The budget does not change while drm_dp_i2c_do_msg runs.
C29_Kept ==
  i2c.pc \in {"xfer", "sleep"} /\ i2c'.pc \in {"xfer", "sleep", "ret"} =>
    i2c'.max_retries = i2c.max_retries

\* C29: the retry budget of a message transfer is
\* max(7, ceil(i2cDuration / (auxDuration + 500))) with auxDuration =
\* 108 + 8 * size and i2cDuration = ceil((11 + 9 * size) * 1000 / speedKHz);
\* it is computed when the transfer starts, is at least 7 for the sizes 0 to
\* 16 and the speeds 1 to 400, and stays when the request is switched to a
\* status update.
C29_RetryBudget ==
  /\ [](C29_Formula /\ C29_Budget)
  /\ [][C29_Kept]_vars

\* A write on a bus of 1 kHz was deferred and goes on as a status update
\* with the budget, above 7, it began with.
C29_Witness ==
  /\ i2c.pc = "xfer"
  /\ i2c.io.sent.request = DP_AUX_I2C_WRITE
  /\ i2c.cur.request = DP_AUX_I2C_WRITE_STATUS_UPDATE
  /\ i2c.io.sent.size = DP_AUX_MAX_PAYLOAD_BYTES
  /\ i2c.speed_khz = 1
  /\ i2c.max_retries = 211

\* A raw transfer of drm_dp_i2c_do_msg returns -EBUSY.
BusyReply ==
  /\ i2c.pc = "xfer"
  /\ i2c'.io.calls = i2c.io.calls + 1
  /\ i2c'.io.last.kind = "busy"

\* -EBUSY uses one retry and nothing else: the same message is sent again at
\* once, or the budget is used up and the message ends with -EREMOTEIO.
C30_Retried ==
  BusyReply =>
    /\ i2c'.retry = i2c.retry + 1
    /\ i2c'.defer_i2c = i2c.defer_i2c
    /\ i2c'.max_retries = i2c.max_retries
    /\ i2c'.cur = i2c.cur
    /\ i2c'.pc \in {"xfer", "ret"}
    /\ i2c'.pc = "ret" <=> i2c'.retry = i2c.max_retries + i2c.defer_i2c
    /\ i2c'.pc = "ret" => i2c'.v = -EREMOTEIO

\* -EBUSY is handed to no caller, and a message left on -EBUSY has made as
\* many raw transfer calls as its budget.
C30_NotReturned ==
  /\ i2c.pc # "sleep"
  /\ DoMsgDone => i2c.v # -EBUSY
  /\ XferDone => i2c.err # -EBUSY /\ i2c.xo.fail # -EBUSY
  /\ DoMsgDone /\ i2c.io.last.kind = "busy" =>
       /\ i2c.v = -EREMOTEIO
       /\ i2c.io.calls = i2c.max_retries
  /\ InDoMsg => i2c.io.calls <= i2c.max_retries

\* C30: in a message transfer an -EBUSY of the raw transfer function is
\* retried without a wait and uses one retry of the budget; -EBUSY is never
\* the value the message transfer or the exchange returns: with a transfer
\* function that is always busy the message transfer returns -EREMOTEIO
\* after exactly as many raw transfer calls as the budget.
C30_BusyRetried ==
  /\ [][C30_Retried]_vars
  /\ []C30_NotReturned

\* A read of 16 bytes at 1 kHz gave up after 211 raw transfers that were all
\* busy.
C30_Witness ==
  /\ DoMsgDone /\ i2c.v = -EREMOTEIO
  /\ i2c.io.last.kind = "busy"
  /\ i2c.io.sent.size = DP_AUX_MAX_PAYLOAD_BYTES
  /\ i2c.io.calls = 211 /\ i2c.max_retries = 211

\* The write-status-update variant of a request, by arithmetic: the command
\* is the two low bits, 0 for a write and 2 for a status update.
StatusUpdateOf(request) ==
  IF request % 4 = 0 THEN request + 2 ELSE request

\* A raw transfer of drm_dp_i2c_do_msg returns with a reply of kind k.
ReplyOfKind(k) ==
  /\ i2c.pc = "xfer"
  /\ i2c'.io.calls = i2c.io.calls + 1
  /\ i2c'.io.last.kind = k

\* A native ACK and I2C ACK for fewer bytes than asked for: the request is
\* switched and the count returned.
C31_ShortAck ==
  ReplyOfKind("ack") /\ i2c'.io.last.ret < i2c.cur.size =>
    /\ i2c'.pc = "ret"
    /\ i2c'.v = i2c'.io.last.ret
    /\ i2c'.cur.request = StatusUpdateOf(i2c.cur.request)
    /\ i2c'.cur.size = i2c.cur.size

\* The drain goes on after a short count: its next attempt asks for the
\* remaining bytes with the request as the attempt before left it.
C31_NextAttempt ==
  /\ i2c.pc = "ret" /\ i2c.step = "data"
  /\ 0 < i2c.v /\ i2c.v < i2c.cur.size
  => /\ i2c'.pc = "xfer" /\ i2c'.step = "data"
     /\ i2c'.cur.request = i2c.cur.request
     /\ i2c'.cur.size = i2c.cur.size - i2c.v
     /\ i2c'.io.sent = i2c'.cur

\* An I2C DEFER: the thread waits, the request is switched, and the message
\* is sent again unless the retries are used up.
C31_Defer ==
  /\ ReplyOfKind("i2c defer") =>
       /\ i2c'.pc = "sleep"
       /\ i2c'.cur.request = StatusUpdateOf(i2c.cur.request)
       /\ i2c'.cur.size = i2c.cur.size
  /\ i2c.pc = "sleep" /\ i2c'.pc # "sleep" =>
       /\ i2c'.cur = i2c.cur
       /\ i2c'.pc \in {"xfer", "ret"}
       /\ i2c'.pc = "ret" => i2c'.v = -EREMOTEIO

\* C31: a native ACK and I2C ACK for fewer bytes than requested switches the
\* request of the message in flight to the write-status-update variant and
\* returns the short byte count, so the next attempt of the drain, for the
\* remaining bytes, is issued as a status update; an I2C DEFER waits one
\* retry interval and reissues the message as a status update.
C31_StatusUpdateSwitch ==
  [][C31_ShortAck /\ C31_NextAttempt /\ C31_Defer]_vars

\* After a short ACK of one byte the drain makes its next attempt, for the
\* rest of a write of three bytes, as a status update.
C31_Witness ==
  /\ i2c.pc = "xfer" /\ i2c.step = "data"
  /\ i2c.io.calls = 0 /\ i2c.xo.short = 1
  /\ i2c.msg.request = DP_AUX_I2C_WRITE + DP_AUX_I2C_MOT
  /\ i2c.cur.request = DP_AUX_I2C_WRITE_STATUS_UPDATE + DP_AUX_I2C_MOT
  /\ i2c.msg.size = 3 /\ i2c.cur.size = 2

\* C32: every data transaction of an I2C exchange asks for 1 to 16 bytes and
\* for no more than the configured maximum, which is clamped into 1..16 when
\* the exchange starts: no setting of the parameter leads to a data
\* transaction of no byte or of more than 16 bytes.
C32_PayloadInRange ==
  /\ i2c.pc # "stuck"
  /\ i2c.pc = "xfer" /\ i2c.step = "data" =>
       /\ i2c.cur.size \in 1..DP_AUX_MAX_PAYLOAD_BYTES
       /\ i2c.cur.size <= i2c.transfer_size
       /\ i2c.transfer_size \in 1..DP_AUX_MAX_PAYLOAD_BYTES

(***************************************************************************)
(* C33: one pass of the loop of drm_dp_aux_crc_work.                       *)
(***************************************************************************)
\* A drm_dp_aux_get_crc returns in this step.
PollStep == crc'.polls # crc.polls /\ crc'.polls # 0

\* C33 as stated: after a first poll that found no new sample the work item
\* is at its second poll at once, with no sleep between the two.
C33_AsStated ==
  crc.polls = 1 /\ crc.poll.ret = -EAGAIN => crc.work = "retry"

\* At most two polls and at most one CRC triple in a pass of the loop.
C33_PerPass == crc.polls <= 2 /\ crc.sent <= 1

\* A poll reports -EAGAIN exactly when it saw the count of aux->crc_count;
\* the first -EAGAIN of a pass leads to usleep_range and the second poll, the
\* second to the loop condition with nothing forwarded; a triple is
\* forwarded only by a poll that saw another count than aux->crc_count.
C33_Poll ==
  /\ PollStep =>
        /\ crc'.poll.ret = -EAGAIN <=> crc'.poll.count = crc.crc_count
        /\ crc'.poll.ret = -EAGAIN =>
              /\ crc'.sent = crc.sent
              /\ crc'.crc_count = crc.crc_count
              /\ crc'.work = IF crc.work = "get" THEN "usleep" ELSE "head"
        /\ crc'.sent # crc.sent =>
              /\ crc'.poll.count \notin {-1, crc.crc_count}
              /\ crc'.poll.ret = 0
  /\ crc.work = "usleep" /\ crc'.work # "usleep" =>
        crc'.work = "retry" /\ crc'.polls = 1 /\ crc'.sent = 0
  /\ crc'.sent # crc.sent => PollStep \/ crc'.sent = 0

\* C33 (amended): in a pass of the loop of drm_dp_aux_crc_work (one vblank
\* wait) a TEST_CRC_COUNT equal to aux->crc_count means no new sample: the
\* poll is made once more after usleep_range(1000, 2000) and, if the count is
\* still the same, the pass forwards nothing and the loop goes on; a pass
\* makes at most two polls and forwards at most one CRC triple, and only
\* after a poll that saw a count other than aux->crc_count.
C33_OnePass == [](C33_PerPass) /\ [][C33_Poll]_vars

\* The second poll of a pass found the count unchanged as well: nothing was
\* forwarded and the work item is back at its loop condition.
C33_Witness ==
  /\ crc.polls = 2
  /\ crc.poll.ret = -EAGAIN
  /\ crc.sent = 0
  /\ crc.work = "head"

(***************************************************************************)
(* C37: a sample whose CRC bytes cannot be read.                           *)
(***************************************************************************)
\* The poll of this step saw a new count and failed to read the CRC bytes.
ReadFailed ==
  /\ PollStep
  /\ crc'.poll.count \notin {-1, crc.crc_count}
  /\ crc'.poll.ret \notin {0, -EAGAIN}

\* The steps of the work item around a sample it failed to read.
C37_Step ==
  /\ ReadFailed =>
        /\ crc'.crc_count = crc'.poll.count
        /\ crc'.lost = crc'.poll.count
        /\ crc'.sent = crc.sent
        /\ crc'.work = "head"
  /\ PollStep /\ crc.lost # -1 /\ crc'.poll.count = crc.lost =>
        /\ crc'.poll.ret = -EAGAIN
        /\ crc'.sent = crc.sent
        /\ crc'.lost = crc.lost
  /\ PollStep /\ crc'.sent # crc.sent => crc'.poll.count # crc.lost
  /\ crc.lost # -1 => crc.lost = crc.crc_count

\* C37: a poll that sees a count other than aux->crc_count stores it before
\* it reads the 6 CRC bytes: when that read fails the count is stored all
\* the same and nothing is forwarded; a later poll that sees this count while
\* aux->crc_count holds it returns -EAGAIN, and no triple is forwarded for
\* it.
C37_LostSample == [][C37_Step]_vars

\* A poll has come back with -EAGAIN on the count of a sample whose CRC
\* bytes an earlier poll failed to read.
C37_Witness ==
  /\ crc.lost # -1
  /\ crc.poll.count = crc.lost
  /\ crc.poll.ret = -EAGAIN
  /\ crc.sent = 0

(***************************************************************************)
(* C38: the error paths of drm_dp_start_crc and drm_dp_stop_crc, and what  *)
(* they write to DP_TEST_SINK.                                             *)
(***************************************************************************)
\* The bits of a byte of DP_TEST_SINK other than DP_TEST_SINK_START.
OtherBits(v) == v - ((v \div DP_TEST_SINK_START) % 2) * DP_TEST_SINK_START

\* The sink and the capture of the channel are as they were.
CaptureKept ==
  /\ crc'.start = crc.start
  /\ crc'.others = crc.others
  /\ crc'.crc_count = crc.crc_count
  /\ crc'.crtc = crc.crtc
  /\ crc'.pending = crc.pending
  /\ crc'.work = crc.work

\* drm_dp_start_crc returns in this step.
StartReturns ==
  \/ crc.ctl = "start" /\ crc'.ctl # "start"
  \/ crc.ctl = "idle" /\ crc'.ctl = "idle" /\ crc'.started # crc.started

\* drm_dp_stop_crc returns an error in this step.
StopFails ==
  \/ crc.ctl = "stop" /\ crc'.ctl = "idle"
  \/ crc.ctl = "idle" /\ crc'.ctl = "idle" /\ crc.stopped # "err"
       /\ crc'.stopped = "err"

\* The steps of drm_dp_start_crc and drm_dp_stop_crc.
C38_Step ==
  /\ StartReturns =>
        \/ crc'.started = "err" /\ CaptureKept
        \/ /\ crc'.started = "ok"
           /\ crc.ctl = "start"
           /\ crc'.start
           /\ crc'.others = OtherBits(crc.buf)
           /\ crc'.others = crc.others
           /\ crc'.pending /\ crc'.crtc /\ crc'.crc_count = 0
  /\ StopFails => crc'.stopped = "err" /\ CaptureKept
  /\ crc.ctl = "stop" /\ crc'.ctl # "stop" /\ ~StopFails =>
        /\ crc'.ctl = "flush"
        /\ ~crc'.start
        /\ crc'.others = OtherBits(crc.buf)
        /\ crc'.others = crc.others
        /\ crc'.crtc = crc.crtc
  /\ crc'.crtc # crc.crtc /\ ~crc'.crtc =>
        crc.ctl = "flush" /\ crc'.stopped = "ok"

\* C38: when the read or the write of DP_TEST_SINK fails in
\* drm_dp_start_crc the error is returned, the work item is not queued and
\* aux->crc_count and aux->crtc are as before; when it fails in
\* drm_dp_stop_crc the error is returned with no flush_work and aux->crtc as
\* before.  On success each writes back the byte it read with only
\* DP_TEST_SINK_START changed.
C38_ErrorPaths ==
  /\ [](crc.ctl \in {"start", "stop"} => crc.buf = TestSink(crc))
  /\ [][C38_Step]_vars

\* drm_dp_start_crc failed on a channel that is capturing: the pipeline is
\* still bound, the count seen last is still there, and the sink's register
\* has its other bits set next to the start bit.
C38_Witness ==
  /\ crc.started = "err"
  /\ crc.ctl = "idle"
  /\ crc.crtc
  /\ crc.crc_count = 1
  /\ crc.start
  /\ crc.others = 2

(***************************************************************************)
(* C34: the two accesses of drm_dp_dpcd_read on a direct channel.          *)
(***************************************************************************)
\* Thread t is between its throwaway read and its requested read.
BetweenReads(t) ==
  /\ call[t].fn = "read"
  /\ phase[t] = "real"
  /\ pc[t] = "lock"
  /\ Len(issued[t]) = 1

\* The throwaway read of a thread ends with mutex_unlock: the lock is free
\* and the thread stands at the mutex_lock of its requested read.
C34_Step ==
  \A t \in Threads :
    phase[t] = "throwaway" /\ phase'[t] = "real" =>
      /\ ~is_remote
      /\ hw_mutex = t
      /\ hw_mutex' = 0
      /\ pc'[t] = "lock"
      /\ issued'[t][1].msg = AccessMsg(ThrowawayAcc.request,
                                      ThrowawayAcc.offset, ThrowawayAcc.size)
      /\ issued'[t][1].acq = 1

\* C34: drm_dp_dpcd_read on a direct channel takes and releases hw_mutex
\* for its throwaway read and takes it again for the requested read: between
\* the two the thread does not hold the lock, so the raw transfer of another
\* thread can run there.
C34_TwoLockings ==
  /\ [](\A t \in Threads : BetweenReads(t) => hw_mutex # t)
  /\ [][C34_Step]_vars

\* A thread is between its two reads while another thread, which took the
\* lock after the throwaway read, is in aux->transfer.
C34_Witness ==
  \E t \in Threads, u \in Threads :
    /\ u # t
    /\ BetweenReads(t)
    /\ hw_mutex = u
    /\ pc[u] = "xfer"
    /\ obs[u].calls = 0

(***************************************************************************)
(* C39: drm_dp_channel_eq_ok and drm_dp_clock_recovery_ok on one link      *)
(* status.                                                                 *)
(***************************************************************************)
\* One lane with clock recovery done and nothing else, aligned.
CrOnly == Bytes(<<DP_LANE_CR_DONE, 0, DP_INTERLANE_ALIGN_DONE, 0, 0, 0>>)

\* C39: for every link status and lane count, drm_dp_channel_eq_ok true
\* implies drm_dp_clock_recovery_ok true, since DP_CHANNEL_EQ_BITS holds
\* DP_LANE_CR_DONE; the converse fails, as on a lane that has clock recovery
\* done and nothing else.
C39_EqImpliesCr ==
  /\ calc.fn = "drm_dp_channel_eq_ok" /\ calc.done /\ calc.out =>
        drm_dp_clock_recovery_ok(calc.a, calc.b)
  /\ calc.fn = "drm_dp_clock_recovery_ok" /\ calc.done /\ ~calc.out =>
        ~drm_dp_channel_eq_ok(calc.a, calc.b)
  /\ BitAnd(DP_CHANNEL_EQ_BITS, DP_LANE_CR_DONE) = DP_LANE_CR_DONE
  /\ drm_dp_clock_recovery_ok(CrOnly, 1)
  /\ ~drm_dp_channel_eq_ok(CrOnly, 1)

\* drm_dp_channel_eq_ok returned true for four lanes, each of which has its
\* clock recovery done bit set.
C39_Witness ==
  /\ calc.fn = "drm_dp_channel_eq_ok" /\ calc.done
  /\ calc.out = TRUE /\ calc.b = 4
  /\ \A lane \in 0..3 : CrDoneBit(calc.a, lane)

(***************************************************************************)
(* C40: what drm_dp_i2c_msg_write_status_update does to a request.         *)
(***************************************************************************)
\* The command of a request (its two low bits) and its DP_AUX_I2C_MOT flag,
\* by arithmetic.
Command(request) == request % 4
Mot(request) == ((request \div DP_AUX_I2C_MOT) % 2) * DP_AUX_I2C_MOT

\* What the switch is to make of a request.
Switched(request) ==
  IF Command(request) = DP_AUX_I2C_WRITE
  THEN Mot(request) + DP_AUX_I2C_WRITE_STATUS_UPDATE
  ELSE request

\* drm_dp_i2c_msg_write_status_update on the request in flight: a write
\* keeps its MOT flag and becomes a status update, any other request stays,
\* and a second application changes nothing.
C40_OnRequest ==
  LET r == i2c.cur.request
      w == drm_dp_i2c_msg_write_status_update(r)
  IN  /\ w = Switched(r)
      /\ Command(r) # DP_AUX_I2C_WRITE => w = r
      /\ Mot(w) = Mot(r)
      /\ drm_dp_i2c_msg_write_status_update(w) = w

\* The request of a message changes inside drm_dp_i2c_do_msg only from a
\* write to a status update with the same MOT flag; a short ACK or an I2C
\* DEFER leaves a read and a status update as they are.
C40_InDoMsg ==
  /\ i2c.pc = "xfer" /\ i2c'.io.calls = i2c.io.calls + 1 =>
        /\ i2c'.cur.request \in {i2c.cur.request, Switched(i2c.cur.request)}
        /\ i2c'.cur.request # i2c.cur.request =>
              /\ Command(i2c.cur.request) = DP_AUX_I2C_WRITE
              /\ Command(i2c'.cur.request) = DP_AUX_I2C_WRITE_STATUS_UPDATE
              /\ Mot(i2c'.cur.request) = Mot(i2c.cur.request)
  /\ ReplyOfKind("i2c defer") =>
        i2c'.cur.request = Switched(i2c.cur.request)
  /\ ReplyOfKind("ack") /\ i2c'.io.last.ret < i2c.cur.size =>
        i2c'.cur.request = Switched(i2c.cur.request)

\* C40: the switch to write-status-update changes a request only when its
\* command is I2C write: it keeps the MOT flag and replaces the command; a
\* read and a request that is a status update already are unchanged, and
\* applying the switch twice is the same as applying it once.
C40_SwitchOnlyWrites == [](C40_OnRequest) /\ [][C40_InDoMsg]_vars

\* A request that had become a status update on a first I2C DEFER met a
\* second one and is the same status update still.
C40_Witness ==
  /\ i2c.pc = "sleep"
  /\ i2c.io.defers = 2
  /\ i2c.io.sent.request = DP_AUX_I2C_WRITE + DP_AUX_I2C_MOT
  /\ i2c.cur.request = DP_AUX_I2C_WRITE_STATUS_UPDATE + DP_AUX_I2C_MOT

(***************************************************************************)
(* C35: drm_dp_i2c_drain_msg when every drm_dp_i2c_do_msg reports between  *)
(* 1 byte and the bytes it was asked for.                                  *)
(***************************************************************************)
\* A call of drm_dp_i2c_do_msg of the drain has returned such a count.
AttemptReported ==
  /\ i2c.pc = "ret" /\ i2c.step = "data"
  /\ i2c.v \in 1..i2c.cur.size

\* While a chunk is drained: at most as many calls as the chunk has bytes,
\* each for the bytes not yet reported, at the position after them.
C35_Position ==
  InChunk =>
    /\ i2c.xo.tries \in 1..i2c.msg.size
    /\ i2c.xo.tries <= i2c.xo.sum + 1
    /\ i2c.xo.sum + i2c.cur.size = i2c.msg.size
    /\ i2c.buffer = i2c.j + i2c.xo.sum
    /\ i2c.io.sent.size = i2c.cur.size

\* After a call that reported v bytes the drain either calls again, for the
\* rest and v bytes further on, or returns: all bytes are reported and the
\* value returned, which drm_dp_i2c_xfer keeps in transfer_size, is the
\* smallest short reply, or the size of the chunk without one.
C35_Attempt ==
  AttemptReported =>
    IF i2c.v < i2c.cur.size
    THEN /\ i2c'.pc = "xfer" /\ i2c'.step = "data"
         /\ i2c'.msg = i2c.msg /\ i2c'.j = i2c.j
         /\ i2c'.cur.size = i2c.cur.size - i2c.v
         /\ i2c'.buffer = i2c.buffer + i2c.v
         /\ i2c'.xo.tries = i2c.xo.tries + 1
         /\ i2c'.xo.sum = i2c.xo.sum + i2c.v
    ELSE /\ i2c'.step # "data" \/ i2c'.xo.chunks = i2c.xo.chunks + 1
         /\ i2c.xo.sum + i2c.v = i2c.msg.size
         /\ i2c.xo.tries <= i2c.msg.size
         /\ i2c'.transfer_size = DrainReported

\* C35: when every call of drm_dp_i2c_do_msg reports between 1 byte and the
\* bytes it was asked for, drm_dp_i2c_drain_msg ends after at most size
\* calls, the counts add up to the size of the message, each call starts at
\* the buffer position after the bytes reported so far, and the value
\* returned is the smallest short reply, or the size of the message when no
\* reply was short.
C35_Drain == [](C35_Position) /\ [][C35_Attempt]_vars

\* A write of three bytes was drained by three calls of one byte each: the
\* last began two bytes into the buffer and the drain returned 1.
C35_Witness ==
  /\ i2c.step = "close"
  /\ i2c.msg.size = 0 /\ i2c.msgs[1].len = 3
  /\ i2c.xo.tries = 3 /\ i2c.xo.sum = 3 /\ i2c.buffer = 3
  /\ i2c.xo.short = 1
  /\ i2c.transfer_size = 1

(***************************************************************************)
(* C36: the requests drm_dp_i2c_xfer begins its transactions with.         *)
(***************************************************************************)
\* A plain I2C read or write, whatever its MOT flag.
Plain(request) == Command(request) \in {DP_AUX_I2C_WRITE, DP_AUX_I2C_READ}

\* The thread is in the open of a message, in the close of the exchange, or
\* in the first drm_dp_i2c_do_msg of a chunk.
OpenCloseOrFirst ==
  /\ i2c.pc = "xfer"
  /\ i2c.step \in {"open", "close"} \/ (i2c.step = "data" /\ i2c.xo.tries = 1)

\* C36 as stated: every raw transfer of an open, of a close and of the first
\* call for a chunk carries a plain read or write.
C36_AsStated == OpenCloseOrFirst => Plain(i2c.cur.request)

\* The request an open or a chunk of message k begins with.
RequestFor(k) == drm_dp_i2c_msg_set_request(i2c.msgs[k])

\* C36 (amended): in every exchange the first raw transfer of each open, of
\* each chunk and of the close carries a plain read or write with the flags
\* of its i2c_msg, whatever the transactions before it met: the request is
\* set again from the i2c_msg after the open and after every chunk, and the
\* drain works on a copy.  Later raw transfers of a write, the ones that
\* follow an I2C DEFER in an open or a close among them, carry a status
\* update.
C36_NoLeak ==
  /\ OpenCloseOrFirst /\ i2c.io.calls = 0 =>
        /\ Plain(i2c.cur.request)
        /\ i2c.step \in {"open", "data"} => i2c.cur.request = RequestFor(i2c.i)
        /\ i2c.step = "close" => Mot(i2c.cur.request) = 0
  /\ InChunk => i2c.msg.request = RequestFor(i2c.i)
  /\ i2c.pc = "xfer" /\ ~Plain(i2c.cur.request) =>
        /\ i2c.io.calls > 0 \/ (i2c.step = "data" /\ i2c.xo.tries > 1)
        /\ Command(i2c.io.sent.request) = DP_AUX_I2C_WRITE
             \/ i2c.step = "data"

\* The second chunk of a write begins as a plain write after the open met an
\* I2C DEFER and the first chunk a short ACK, each of which had turned the
\* request in flight into a status update.
C36_Witness ==
  /\ i2c.pc = "xfer" /\ i2c.step = "data"
  /\ i2c.io.calls = 0 /\ i2c.xo.tries = 1 /\ i2c.xo.chunks = 2
  /\ i2c.j = 2 /\ i2c.transfer_size = 1
  /\ i2c_defer_count = 1
  /\ i2c.cur.request = DP_AUX_I2C_WRITE + DP_AUX_I2C_MOT

====
